---- MODULE Spec2Model ----
(***************************************************************************)
(* SyntaApp/app: the host-side service registry (ServiceManager), the      *)
(* namespaces and their action registries, the IPC handler that binds      *)
(* actions to channels, the rate limiter, the logger, the settings store   *)
(* and its channels, the singleton accessor, the Action decorator, the     *)
(* App lifecycle and the ConfigFile helper.                                *)
(*                                                                         *)
(* The registry modelled here is the asynchronous ServiceManager that App  *)
(* is written against (src/src/main/classes/core/App.ts, lines 215-382):   *)
(* it has the `logger` getter, the `_ready` flag and the NotReady /        *)
(* NotRegistered errors of get().  The file core/ServiceManager.ts holds   *)
(* an earlier synchronous variant of the same class (it seals before the   *)
(* init loop, logs through console and rethrows a failing init hook); it   *)
(* is referred to in comments where the two differ.                        *)
(*                                                                         *)
(* Scheduling is single-threaded and cooperative: a step of the model is   *)
(* the code that runs between two suspension points (`await`).             *)
(*                                                                         *)
(* Each component has its own specification (Spec, NamespaceSpec,          *)
(* RatelimitSpec, LoggerSpec, SettingsSpec, SettingsChannelSpec,           *)
(* SingletonSpec, DecoratorSpec, SafeLogSpec, RegisterNamespaceSpec,       *)
(* AppSpec, OverlapSpec, ConfigSpec and, with fairness, ConfigLiveSpec);   *)
(* the actions of one leave the variables of the others alone.             *)
(***************************************************************************)
EXTENDS Integers, Sequences, FiniteSets, TLC

\* ------------------------------------------------------------------ bounds

\* Number of distinct service objects a client may register.
MaxInstances == 2

\* Number of lifecycle calls (init / dispose activations) that can be in flight.
MaxCalls == 2

\* Number of namespace instances that are constructed.
MaxNamespaces == 2

\* Length of the logger's transport list.
MaxTransports == 3

\* Number of BrowserWindows open, and of Electron-ready callbacks that start()
\* has scheduled and that have not run.
MaxWindows == 2

\* Number of App.init() calls that get as far as registering event handlers.
MaxInits == 2

\* Number of calls that clients make on one ConfigFile.
MaxSubmissions == 2

\* ------------------------------------------------------------ program data

\* keyof ServiceMap: Logger and IPCHandler (ServiceMap.ts), Settings
\* (requested by channels/Settings.ts).
Keys == {"Logger", "IPCHandler", "Settings"}

Instances == 1 .. MaxInstances

Calls == 1 .. MaxCalls

\* What `await service.init?.()` / `await service.dispose?.()` can come to.
\* "ok": the hook returned or resolved (a service without the hook gives
\* undefined, and the await resumes the same way); "threw": it threw or
\* rejected with a value that converts to a string; "threwSymbol": it threw or
\* rejected with a value that `${err}` cannot convert (a Symbol, an object
\* without toString).
HookOutcomes == {"ok", "threw", "threwSymbol"}

NoKey == "-"

\* The result of the most recent synchronous call as its caller sees it.
NoCall == [op |-> "none", key |-> NoKey, inst |-> 0, res |-> "-"]

IdleCall == [op |-> "none", pc |-> "idle", idx |-> 0, snap |-> << >>, log |-> << >>]

VARIABLES
    registry,   \* ServiceManager.registry: the Map's entries in insertion order
    ready,      \* ServiceManager._ready
    calls,      \* the activations of init() and dispose(), by call slot
    last        \* what the most recent call returned to (or threw at) its caller

VARIABLES
    namespaces, \* the Namespace instances constructed so far, by instance number
    handlers,   \* ipcMain's handler table: what each channel is bound to
    latest,     \* history: the namespace of the latest register() that has the channel
    ipcLast     \* what the most recent Namespace / IPCHandler call came to

VARIABLES
    now,            \* Date.now()
    callTimestamps, \* Ratelimit's callTimestamps maps: the stored lists
    invoked,        \* history: the recent times at which the wrapped action ran
    rlLast          \* what the most recent rate-limited call came to

VARIABLES
    isDebug,    \* Logger.isDebug ("none" before the Logger is constructed)
    transports, \* Logger.transports, in list order
    derived,    \* the loggers that with() has returned so far
    delivered,  \* the records the most recent log call handed to transports
    logLast     \* what the most recent Logger call came to

serviceVars == << registry, ready, calls, last >>

namespaceVars == << namespaces, handlers, latest, ipcLast >>

limiterVars == << now, callTimestamps, invoked, rlLast >>

loggerVars == << isDebug, transports, derived, delivered, logLast >>

VARIABLES
    files,      \* the settings files on disk, by path
    returned,   \* history: what the latest update of each settings file returned
    setLast     \* what the most recent Settings call came to

VARIABLES
    instance,   \* ServiceManager._instance (0: not set)
    constructed \* history: how many times `new ServiceManager()` has run

VARIABLES
    classes,    \* the namespace classes whose definition has completed
    registries, \* the action registries of the instances constructed from them
    defLast     \* what the most recent class definition / construction came to

settingsVars == << files, returned, setLast >>

singletonVars == << instance, constructed >>

decoratorVars == << classes, registries, defLast >>

VARIABLES
    safeLast    \* what the most recent Logger.safeLog call came to

safeLogVars == << safeLast >>

VARIABLES
    state,          \* App.state
    listeners,      \* how many times setupEventHandlers() has registered its handlers
    whenReady,      \* callbacks that start() attached to whenReady() and that have not run
    electronReady,  \* whether Electron's ready event has been emitted
    windows,        \* BrowserWindows open
    quit,           \* electronApp.quit(): "no", "requested", "exited"
    appLast         \* what the most recent App call or event came to

appVars == << state, listeners, whenReady, electronReady, windows, quit, appLast >>

VARIABLES
    runs,         \* the functions handed to ConfigFile.serial(), in submission order
    configExists  \* whether the config file exists on disk

configVars == << runs, configExists >>

\* The variables of the host side outside the registry: the static safe
\* logger, the App and the ConfigFile helper.
hostVars == << safeLogVars, appVars, configVars >>

\* The variables of the settings store, of the singleton accessor, of class
\* definition and of the host-side helpers, which the actions of the other
\* components leave alone.
otherVars == << settingsVars, singletonVars, decoratorVars, hostVars >>

vars == << serviceVars, namespaceVars, limiterVars, loggerVars, otherVars >>

\* ------------------------------------------- namespaces: program data, start

\* `this.constructor.name` of the concrete namespaces (channels/Settings.ts,
\* channels/Project.ts).
TypeNames == {"Settings", "Project"}

\* Member names: the built-in ping and two names a subclass declares.
ActionNames == {"ping", "getUser", "updateUser"}

\* The names a subclass declares, in declaration order.
OwnNames == << "getUser", "updateUser" >>

\* What a subclass makes of a name: "action", a method decorated with Action
\* (channels/Settings.ts); "method", a method without the decorator; "name",
\* a name registered through addAction() that is no function member of the
\* instance.
\*
\* What a subclass adds to Namespace.  `actions`: the names it registers, in
\* the order its construction registers them; `methods`: the names that are
\* function members of the instance.
ClassBody(kind) ==
    [actions |-> SelectSeq(OwnNames, LAMBDA a : kind[a] \in {"action", "name"}),
     methods |-> { a \in DOMAIN kind : kind[a] \in {"action", "method"} }]

\* The subclasses constructed: every method decorated; updateUser left
\* without the decorator; getUser registered without being a method.
ClassBodies ==
    { ClassBody(kind) : kind \in
        { [getUser |-> "action", updateUser |-> "action"],
          [getUser |-> "action", updateUser |-> "method"],
          [getUser |-> "name", updateUser |-> "action"] } }

\* `${namespaceName}:${action}`
ChannelName(namespaceName, action) == namespaceName \o ":" \o action

Channels == { ChannelName(t, a) : t \in TypeNames, a \in ActionNames }

\* No handler on a channel / no member behind a name.
NoHandler == [ns |-> 0, action |-> "undefined"]

\* No method was called.
NoMethodCall == [receiver |-> 0, method |-> "undefined", arguments |-> << >>]

\* The invocation event ipcMain passes to a handler, and the arguments of an
\* invocation: none, or a patch.
InvokeEvent == "event"

InvocationArgs == { << >>, << "patch" >> }

\* The result of the most recent Namespace / IPCHandler call: `ns`, `name` the
\* instance and the name asked about; `channel`, `action` what getChannel and
\* getAction returned; `how` what the bound action did; `res`, `status`,
\* `message` what came back; `reached` the binding that was invoked;
\* `received` the call that the binding made.
NoIpcCall ==
    [op |-> "none", ns |-> 0, name |-> "-", channel |-> "-", action |-> "-",
     how |-> "-", res |-> "-", status |-> 0, message |-> "-", reached |-> NoHandler,
     received |-> NoMethodCall]

\* History per channel: `named` is the instance of the latest register() call
\* whose namespace has the channel, `reached` the instance of the latest
\* register() call that got as far as the channel's action.
NoRegistration == [named |-> 0, reached |-> 0]

\* No namespace constructed, no handler on ipcMain.
NamespacesStart ==
    /\ namespaces = << >>
    /\ handlers = [ch \in Channels |-> NoHandler]
    /\ latest = [ch \in Channels |-> NoRegistration]
    /\ ipcLast = NoIpcCall

\* ----------------------------------------- rate limiter: program data, start

\* The objects a rate-limited method is called on (`this`).
Receivers == {"ns1", "ns2"}

\* Ratelimit(ms, every) as applied to two actions: the limit of one second and
\* three calls, and the smallest window with the smallest maximum.
Limits ==
    [getUser |-> [ms |-> 1000, every |-> 3],
     updateUser |-> [ms |-> 1, every |-> 1]]

Limited == DOMAIN Limits

\* msg.message of the default rejection payload.
RejectionMessage == "Rate limit exceeded"

\* The readings Date.now() gives, in ms: a start, the last reading inside its
\* window of one second, the first one after it, and the same for the reading
\* before that.
ClockReadings == {0, 999, 1000, 1999}

NoLimitedCall ==
    [on |-> "-", action |-> "-", at |-> 0, res |-> "none", status |-> 0,
     waitTime |-> 0, message |-> "-"]

\* Nothing called yet: callTimestamps holds no list (`get(instance) || []`
\* reads a missing entry as the empty list).
LimiterStart ==
    /\ now = 0
    /\ callTimestamps = [a \in Limited |-> [r \in Receivers |-> << >>]]
    /\ invoked = [a \in Limited |-> [r \in Receivers |-> << >>]]
    /\ rlLast = NoLimitedCall

\* ------------------------------------------------ logger: program data, start

\* op: the operation; lvl, via, ctx: the level, the logger and the context of a
\* log call; failing: the transport that throws on its record; before: the
\* logger of the log call just before it; res: how the call ended.
NoLogCall ==
    [op |-> "none", lvl |-> "-", via |-> "-", ctx |-> << >>, failing |-> "none",
     before |-> "-", res |-> "-"]

\* No Logger constructed yet: there is no transport list.
LoggerStart ==
    /\ isDebug = FALSE
    /\ transports = << >>
    /\ derived = {}
    /\ delivered = << >>
    /\ logLast = NoLogCall

\* ------------------------------------------------------- safe logger: start

\* The values a caller passes as options.ctx and options.error (both typed
\* `unknown`).  `type`: what typeof / instanceof tell; `json`: whether
\* JSON.stringify(v) returns; `str`: whether String(v) returns.
Value(type, json, str) == [type |-> type, json |-> json, str |-> str]

Undefined == Value("undefined", TRUE, TRUE)

\* The result of the most recent safeLog call: its options, what the console
\* and the process streams did, how the call ended (`res`), where the line
\* went (`out`) and the keys of the meta object that went with it.
NoSafeLog ==
    [op |-> "none", level |-> "-", scope |-> "-", ctx |-> Undefined,
     error |-> Undefined,
     console |-> "-", stream |-> "-", res |-> "-", out |-> "-", meta |-> {}]

SafeLogStart == safeLast = NoSafeLog

\* ----------------------------------------------------------------- App: start

\* enum AppState
AppStates == {"initializing", "ready", "running", "shutting_down", "error"}

\* The result of the most recent App call or Electron event: `from` the state
\* before it, `res` how it ended.
NoAppCall == [op |-> "none", from |-> "-", res |-> "-"]

\* `new App()`: state INITIALIZING; Electron has not emitted ready.
AppStart ==
    /\ state = "initializing"
    /\ listeners = 0
    /\ whenReady = 0
    /\ electronReady = FALSE
    /\ windows = 0
    /\ quit = "no"
    /\ appLast = NoAppCall

\* ---------------------------------------------------------- ConfigFile: start

\* `new ConfigFile(path)`: the mutex is a resolved promise, nothing has been
\* handed to serial(); the file does not exist.
ConfigStart ==
    /\ runs = << >>
    /\ configExists = FALSE

\* ---------------------------------------------- settings: program data, start

\* JSON values.  A plain object is tagged "object" and carries its members in
\* `map` (a function from keys to JSON values); an array and a scalar are
\* values that isPlainObject() rejects, and carry their text in `val`.
Object(members) == [kind |-> "object", val |-> "-", map |-> members]

Array(text) == [kind |-> "array", val |-> text, map |-> << >>]

Scalar(text) == [kind |-> "scalar", val |-> text, map |-> << >>]

\* `{}`
EmptyObject == << >>

\* The patches a caller passes to updateUser / updateProject (JsonObject).
Patches ==
    { [theme |-> Scalar("dark")],
      [theme |-> Scalar("light"), options |-> Object([a |-> Scalar("1")]),
       arr |-> Array("[1,2,3]")],
      [options |-> Object([b |-> Scalar("2")]), arr |-> Array("[9]")],
      [options |-> Scalar("off")] }

ProjectRoots == {"projA", "projB"}

\* getUserSettingsPath(): join(base, "settings.json")
UserSettingsPath == "userData/settings.json"

\* getProjectSettingsPath(projectRoot): join(projectRoot, ".synta", "settings.json")
ProjectSettingsPath(projectRoot) == projectRoot \o "/.synta/settings.json"

SettingsPaths == {UserSettingsPath} \cup { ProjectSettingsPath(r) : r \in ProjectRoots }

\* A path at which there is no file.
NoFile == [exists |-> FALSE, text |-> EmptyObject]

\* The result of the most recent Settings call: `op` the method or the channel
\* action, `via` "service" for a call on the service object and "channel" for
\* an invocation over IPC, `path` the file, `patch` the argument, `status`,
\* `data`, `message` what came back.
NoSettingsCall ==
    [op |-> "none", via |-> "-", path |-> "-", patch |-> EmptyObject,
     status |-> 0, data |-> EmptyObject, message |-> "-"]

\* No settings file exists.
SettingsStart ==
    /\ files = [p \in SettingsPaths |-> NoFile]
    /\ returned = [p \in SettingsPaths |-> EmptyObject]
    /\ setLast = NoSettingsCall

\* -------------------------------------------------- singleton accessor: start

\* ServiceManager._instance is not set before the first getInstance().
SingletonStart ==
    /\ instance = 0
    /\ constructed = 0

\* ----------------------------------------------------- class definition: start

\* The result of the most recent class definition or construction.
NoDefinition == [op |-> "none", members |-> << >>, res |-> "-"]

\* No namespace class has been defined, no instance constructed.
DecoratorStart ==
    /\ classes = { }
    /\ registries = { }
    /\ defLast = NoDefinition

\* ------------------------------------------------------------------ the Map

RECURSIVE IndexOf(_, _, _)
IndexOf(entries, key, from) ==
    IF from > Len(entries) THEN 0
    ELSE IF entries[from].key = key THEN from
    ELSE IndexOf(entries, key, from + 1)

\* Map.prototype.has
Has(key) == IndexOf(registry, key, 1) # 0

\* Map.prototype.get; 0 stands for undefined
Lookup(key) ==
    IF Has(key) THEN registry[IndexOf(registry, key, 1)].inst ELSE 0

\* Map.prototype.set: a key already present keeps its position and gets the new
\* value, a new key is appended.
MapSet(entries, key, value) ==
    LET at == IndexOf(entries, key, 1)
    IN  IF at = 0 THEN Append(entries, [key |-> key, inst |-> value])
        ELSE [entries EXCEPT ![at] = [key |-> key, inst |-> value]]

RECURSIVE Reverse(_)
Reverse(s) ==
    IF s = << >> THEN << >> ELSE Append(Reverse(Tail(s)), Head(s))

KeysOf(entries) == [n \in 1 .. Len(entries) |-> entries[n].key]

\* A lifecycle call that has settled is seen by its caller in the step that
\* settles it; its activation is gone afterwards.
Retired ==
    [c \in Calls |->
        IF calls[c].pc \in {"resolved", "rejected"} THEN IdleCall ELSE calls[c]]

\* ------------------------------------------------------ ServiceManager.logger

\* The `logger` getter: a substitute logger while the registry is not ready,
\* otherwise whatever the table holds under "Logger" (undefined when no Logger
\* service was added).
logger ==
    IF ~ready THEN "fallback"
    ELSE IF Has("Logger") THEN "service" ELSE "undefined"

\* `this.logger.warn(..)`, `.error(..)`, `.info(..)` throw a TypeError exactly
\* when the getter returned undefined.
LoggerCallThrows == logger = "undefined"

\* --------------------------------------------------------- ServiceManager.add

\* The guard of add(): the call is refused once the registry is ready.
AddRefused == ready

\* add() with the seal guarding new keys only: a sealed registry still lets a
\* registered key be overwritten.
add_SealGuardsNewKeysOnly(key, value) ==
    IF AddRefused /\ ~Has(key) THEN registry ELSE MapSet(registry, key, value)

\* The table after add(key, value).
add(key, value) ==
    IF AddRefused THEN registry ELSE MapSet(registry, key, value)

\* What add() gives its caller: the refused call warns through the logger.
AddResult ==
    IF ~AddRefused THEN "set"
    ELSE IF LoggerCallThrows THEN "TypeError" ELSE "ignored"

Add(key, value) ==
    /\ registry' = add(key, value)
    /\ last' = [op |-> "add", key |-> key, inst |-> value, res |-> AddResult]
    /\ calls' = Retired
    /\ UNCHANGED ready
    /\ UNCHANGED << namespaceVars, limiterVars, loggerVars, otherVars >>

\* --------------------------------------------------------- ServiceManager.get

\* get() that looks the key up before it looks at _ready: an added key is
\* handed out before the registry is sealed.
get_LookupBeforeReady(key) ==
    IF key = "Logger" THEN logger
    ELSE IF Has(key) THEN "service"
    ELSE IF ~ready THEN "NotReady"
    ELSE "NotRegistered"

\* get() without the has() check, as in the earlier ServiceManager: a key that
\* is not in the table gives undefined.
get_WithoutHasCheck(key) ==
    IF key = "Logger" THEN logger
    ELSE IF ~ready THEN "NotReady"
    ELSE IF ~Has(key) THEN "undefined"
    ELSE "service"

\* The outcome of get(key): "service" (the registered instance), "fallback"
\* (the substitute logger), "undefined", or the error thrown.
get(key) ==
    IF key = "Logger" THEN logger
    ELSE IF ~ready THEN "NotReady"
    ELSE IF ~Has(key) THEN "NotRegistered"
    ELSE "service"

Get(key) ==
    /\ last' = [op |-> "get", key |-> key,
                inst |-> IF get(key) = "service" THEN Lookup(key) ELSE 0,
                res |-> get(key)]
    /\ calls' = Retired
    /\ UNCHANGED << registry, ready >>
    /\ UNCHANGED << namespaceVars, limiterVars, loggerVars, otherVars >>

\* -------------------------------------------------------- ServiceManager.init

Call(op, pc, idx, snap, log) ==
    [op |-> op, pc |-> pc, idx |-> idx, snap |-> snap, log |-> log]

Returned(op, c, res) == [op |-> op, key |-> NoKey, inst |-> c, res |-> res]

\* The log of a call with the outcome of the hook it was awaiting filled in.
Settled(log, out) == [log EXCEPT ![Len(log)].hook = out]

Visit(entry) == [key |-> entry.key, inst |-> entry.inst, hook |-> "pending"]

\* The guard at the top of init(): a ready registry is not initialised again.
InitRefused == ready

\* One pass through try / catch / finally of the init loop once the awaited
\* hook has come to `out`: "next" when the loop goes on, "TypeError" when the
\* catch or the finally block throws (the template `${err}` cannot convert the
\* thrown value, or the logger getter returned undefined).
InitIteration(out) ==
    IF out \in {"threw", "threwSymbol"}
    THEN IF out = "threwSymbol" \/ LoggerCallThrows THEN "TypeError" ELSE "next"
    ELSE IF LoggerCallThrows THEN "TypeError" ELSE "next"

\* The value init() leaves in _ready after its loop.
InitSeals == TRUE

\* The head of `for (const [key, service] of this.registry.entries())` with
\* `idx` entries already consumed by the (live) Map iterator: either the next
\* entry's hook is called and awaited, or the loop is over and the registry
\* becomes ready.
InitLoop(c, idx, log) ==
    IF idx < Len(registry)
    THEN /\ calls' = [Retired EXCEPT ![c] =
                Call("init", "await", idx + 1, << >>,
                     Append(log, Visit(registry[idx + 1])))]
         /\ last' = NoCall
         /\ UNCHANGED << registry, ready >>
    ELSE /\ ready' = InitSeals
         /\ calls' = [Retired EXCEPT ![c] = Call("init", "resolved", idx, << >>, log)]
         /\ last' = Returned("init", c, "resolved")
         /\ UNCHANGED registry

\* init() is called: up to its first `await`.
InitStart(c) ==
    /\ calls[c].pc # "await"
    /\ UNCHANGED << namespaceVars, limiterVars, loggerVars, otherVars >>
    /\ IF InitRefused
       THEN /\ calls' = [Retired EXCEPT ![c] =
                   Call("init", IF LoggerCallThrows THEN "rejected" ELSE "resolved",
                        0, << >>, << >>)]
            /\ last' = Returned("init", c,
                   IF LoggerCallThrows THEN "refusedThrew" ELSE "refused")
            /\ UNCHANGED << registry, ready >>
       ELSE InitLoop(c, 0, << >>)

\* The awaited init hook settles: catch / finally, then the next iteration.
InitResume(c, out) ==
    /\ calls[c].op = "init"
    /\ calls[c].pc = "await"
    /\ UNCHANGED << namespaceVars, limiterVars, loggerVars, otherVars >>
    /\ IF InitIteration(out) = "next"
       THEN InitLoop(c, calls[c].idx, Settled(calls[c].log, out))
       ELSE /\ calls' = [Retired EXCEPT ![c] =
                   Call("init", "rejected", calls[c].idx, << >>,
                        Settled(calls[c].log, out))]
            /\ last' = Returned("init", c, "rejected")
            /\ UNCHANGED << registry, ready >>

\* ----------------------------------------------------- ServiceManager.dispose

\* `Array.from(this.registry.entries()).reverse()`
DisposeOrder == Reverse(registry)

\* One pass through try / catch / finally of the dispose loop.
DisposeIteration(out) ==
    IF LoggerCallThrows THEN "TypeError" ELSE "next"

\* A Map iterator suspended in an init loop survives clear(): it goes on with
\* whatever is added afterwards.
AfterClear(call) ==
    IF call.op = "init" /\ call.pc = "await" THEN [call EXCEPT !.idx = 0] ELSE call

\* The head of `for (const [key, service] of services)` over the snapshot, then
\* `this.registry.clear(); this._ready = false`.
DisposeLoop(c, idx, snap, log) ==
    IF idx < Len(snap)
    THEN /\ calls' = [Retired EXCEPT ![c] =
                Call("dispose", "await", idx + 1, snap, Append(log, Visit(snap[idx + 1])))]
         /\ last' = NoCall
         /\ UNCHANGED << registry, ready >>
    ELSE /\ registry' = << >>
         /\ ready' = FALSE
         /\ calls' = [d \in Calls |->
                IF d = c THEN Call("dispose", "resolved", idx, snap, log)
                ELSE AfterClear(Retired[d])]
         /\ last' = Returned("dispose", c, "resolved")

\* dispose() is called: up to its first `await`.
DisposeStart(c) ==
    /\ calls[c].pc # "await"
    /\ UNCHANGED << namespaceVars, limiterVars, loggerVars, otherVars >>
    /\ DisposeLoop(c, 0, DisposeOrder, << >>)

\* The awaited dispose hook settles.
DisposeResume(c, out) ==
    /\ calls[c].op = "dispose"
    /\ calls[c].pc = "await"
    /\ UNCHANGED << namespaceVars, limiterVars, loggerVars, otherVars >>
    /\ IF DisposeIteration(out) = "next"
       THEN DisposeLoop(c, calls[c].idx, calls[c].snap, Settled(calls[c].log, out))
       ELSE /\ calls' = [Retired EXCEPT ![c] =
                   Call("dispose", "rejected", calls[c].idx, calls[c].snap,
                        Settled(calls[c].log, out))]
            /\ last' = Returned("dispose", c, "rejected")
            /\ UNCHANGED << registry, ready >>

\* ------------------------------------------------------------ specification

\* The state after `new ServiceManager()`.
Init ==
    /\ registry = << >>
    /\ ready = FALSE
    /\ calls = [c \in Calls |-> IdleCall]
    /\ last = NoCall
    /\ NamespacesStart
    /\ LimiterStart
    /\ LoggerStart
    /\ SettingsStart
    /\ SingletonStart
    /\ DecoratorStart
    /\ SafeLogStart
    /\ AppStart
    /\ ConfigStart

\* A client that awaits each lifecycle call before it makes the next one (call
\* slot 1), while add() and get() are called at any time, also from a hook or
\* from another continuation while a hook is awaited.
Next ==
    \/ \E key \in Keys, value \in Instances : Add(key, value)
    \/ \E key \in Keys : Get(key)
    \/ InitStart(1)
    \/ \E out \in HookOutcomes : InitResume(1, out)
    \/ DisposeStart(1)
    \/ \E out \in HookOutcomes : DisposeResume(1, out)

Spec == Init /\ [][Next]_vars

\* ------------------------------------------------------------------ helpers

\* The entries a lifecycle call has visited, in the order it visited them.
Visited(c) ==
    [n \in 1 .. Len(calls[c].log) |->
        [key |-> calls[c].log[n].key, inst |-> calls[c].log[n].inst]]

\* Some hook awaited by call c threw or rejected.
SomeHookThrew(c) ==
    \E n \in 1 .. Len(calls[c].log) : calls[c].log[n].hook \in {"threw", "threwSymbol"}

\* An init() / dispose() call that ran its loop has just settled.
Settles(op) == last.op = op /\ last.res \in {"resolved", "rejected"}

\* An init() call is suspended at `await service.init?.()`.
InitAwaiting == \E c \in Calls : calls[c].op = "init" /\ calls[c].pc = "await"

\* -------------------------------------------------------------------- claims

\* C1: init() seals the registry before it invokes any init hook: while an
\* init hook is running or awaited, add() does not register anything and get()
\* of a registered key other than "Logger" returns the service.
C1_SealedWhileInitRuns ==
    [][InitAwaiting =>
          /\ last'.op = "add" => registry' = registry
          /\ (last'.op = "get" /\ last'.key # "Logger" /\ Has(last'.key))
                => last'.res = "service"]_vars

\* C2: when an init hook throws or rejects, init() still visits every service
\* registered after the failing one, resolves (the error does not reach the
\* caller) and leaves the registry sealed.
C2_InitFailureIsolated ==
    (Settles("init") /\ SomeHookThrew(last.inst)) =>
        /\ last.res = "resolved"
        /\ ready
        /\ \A n \in 1 .. Len(calls[last.inst].log) :
              calls[last.inst].log[n].hook \in {"threw", "threwSymbol"} =>
                 \A m \in 1 .. Len(registry) :
                    m > IndexOf(registry, calls[last.inst].log[n].key, 1) =>
                       \E v \in 1 .. Len(calls[last.inst].log) :
                          Visited(last.inst)[v] = registry[m]

\* C3: an init() call invokes the init hook of every registered service exactly
\* once, in the order in which the keys were first registered: when the call
\* settles, the services it visited are the table's entries, in the table's order.
C3_InitVisitsEachOnceInOrder ==
    Settles("init") => Visited(last.inst) = registry

\* C4: while the registry is sealed, add(key, instance) leaves the service
\* table unchanged, for a new key and for a registered key alike.
C4_AddAfterSealKeepsTable ==
    [][(ready /\ last'.op = "add") => registry' = registry]_vars

\* C4 witness: add() of a new key has just been refused on a sealed registry
\* that holds a service.
C4_Witness ==
    /\ ready
    /\ last.op = "add"
    /\ last.res = "ignored"
    /\ ~Has(last.key)
    /\ Len(registry) > 0

\* C5: get("Logger") returns a usable logger in every registry state.
C5_LoggerAlwaysUsable ==
    (last.op = "get" /\ last.key = "Logger") => last.res \in {"service", "fallback"}

\* C6: while the registry is not sealed, get(key) of a key other than "Logger"
\* fails with NotReady, also when the key has been added.
C6_NotReadyBeforeSeal ==
    (last.op = "get" /\ last.key # "Logger" /\ ~ready) => last.res = "NotReady"

\* C6 witness: get() of an added key has just failed with NotReady.
C6_Witness ==
    /\ last.op = "get"
    /\ last.key # "Logger"
    /\ ~ready
    /\ Has(last.key)
    /\ last.res = "NotReady"

\* C7: while the registry is sealed, get(key) of a key other than "Logger" that
\* is not in the table fails with NotRegistered.
C7_NotRegisteredAfterSeal ==
    (last.op = "get" /\ last.key # "Logger" /\ ready /\ ~Has(last.key))
        => last.res = "NotRegistered"

\* C7 witness: on a sealed registry that holds a service, get() of a key that
\* was never added has just failed with NotRegistered.
C7_Witness ==
    /\ last.op = "get"
    /\ last.key # "Logger"
    /\ ready
    /\ ~Has(last.key)
    /\ Len(registry) > 0
    /\ last.res = "NotRegistered"

\* C8: a dispose() call invokes the dispose hook of every registered service
\* exactly once, in the reverse of the registration order: when the call
\* settles, the services it visited are the reversed table it started from.
C8_DisposeVisitsEachOnceReversed ==
    Settles("dispose") => Visited(last.inst) = calls[last.inst].snap

\* C9: when a dispose hook throws or rejects, dispose() still visits every
\* remaining service and resolves (the error does not reach the caller).
C9_DisposeFailureIsolated ==
    (Settles("dispose") /\ SomeHookThrew(last.inst)) =>
        /\ last.res = "resolved"
        /\ Len(calls[last.inst].log) = Len(calls[last.inst].snap)

\* C10: once dispose() has settled, the table is empty and the registry is
\* unsealed, so that the next add() registers its service.
C10_DisposeResets ==
    Settles("dispose") =>
        /\ registry = << >>
        /\ ~ready
        /\ \A key \in Keys, value \in Instances :
              add(key, value) = << [key |-> key, inst |-> value] >>

\* C29: add() of a registered key before the registry is sealed replaces the
\* stored instance: the table holds one instance per key; when init() resolves
\* it has invoked, for each key, the hook of the instance the table holds and
\* of no other, once, and get(key) hands that instance out; when dispose()
\* resolves it has invoked, for each key, one hook, that of the instance the
\* table held.
C29_OverrideLeavesOnlyLatest ==
    /\ \A i, j \in 1 .. Len(registry) : registry[i].key = registry[j].key => i = j
    /\ (Settles("init") /\ last.res = "resolved") =>
          \A key \in Keys : Has(key) =>
              /\ \A n \in 1 .. Len(Visited(last.inst)) :
                     Visited(last.inst)[n].key = key =>
                         Visited(last.inst)[n].inst = Lookup(key)
              /\ Cardinality({ n \in 1 .. Len(Visited(last.inst)) :
                                   Visited(last.inst)[n].key = key }) = 1
              /\ get(key) = "service"
    /\ (Settles("dispose") /\ last.res = "resolved") =>
          \A m \in 1 .. Len(calls[last.inst].snap) :
              Cardinality({ n \in 1 .. Len(Visited(last.inst)) :
                               Visited(last.inst)[n] = calls[last.inst].snap[m] }) = 1

\* ============================================================== Namespace

\* `this.actionRegistry.add(key)`: a Set keeps the place of the first insertion.
addAction(actionRegistry, key) ==
    IF \E i \in 1 .. Len(actionRegistry) : actionRegistry[i] = key
    THEN actionRegistry
    ELSE Append(actionRegistry, key)

\* The initializers that registration leaves on the class run one after the
\* other, each calling addAction.
RECURSIVE RunInitializers(_, _)
RunInitializers(actionRegistry, names) ==
    IF names = << >> THEN actionRegistry
    ELSE RunInitializers(addAction(actionRegistry, Head(names)), Tail(names))

\* A construction in which Namespace itself registers nothing.
Constructed_OwnNamesOnly(type, body) ==
    [type |-> type,
     actionRegistry |-> RunInitializers(<< >>, body.actions),
     methods |-> {"ping"} \cup body.methods]

\* `new T()` for a concrete namespace type: Namespace's own initializer
\* registers ping first, then the subclass registers its names.
Constructed(type, body) ==
    [type |-> type,
     actionRegistry |-> RunInitializers(<< >>, << "ping" >> \o body.actions),
     methods |-> {"ping"} \cup body.methods]

\* The initializer calls addAction, which reads the field actionRegistry.  A
\* build that runs the initializers of decorated methods once the field holds
\* its Set completes the construction; one that runs them before the field is
\* initialized reads undefined, and `new` throws a TypeError.
ConstructionOutcomes == {"constructed", "TypeError"}

NamespaceIds == 1 .. Len(namespaces)

\* `this.actionRegistry.has(name)`
IsRegistered(n, name) ==
    \E i \in 1 .. Len(namespaces[n].actionRegistry) : namespaces[n].actionRegistry[i] = name

\* getAction without the registry check: any function member is handed out.
getAction_AnyMember(n, name) ==
    IF name \in namespaces[n].methods THEN name ELSE "undefined"

\* getAction(name): the member of that name (written as its name), or
\* "undefined".
getAction(n, name) ==
    IF ~IsRegistered(n, name) THEN "undefined"
    ELSE IF name \in namespaces[n].methods THEN name
    ELSE "undefined"

\* getActions(): a copy of the registry, in insertion order.
getActions(n) == namespaces[n].actionRegistry

\* getChannel that leaves the type name out.
getChannel_WithoutTypeName(n, action) ==
    IF IsRegistered(n, action) THEN ChannelName(CHOOSE t \in TypeNames : TRUE, action)
    ELSE "undefined"

\* getChannel(action)
getChannel(n, action) ==
    IF IsRegistered(n, action)
    THEN ChannelName(namespaces[n].type, action)
    ELSE "undefined"

NewNamespace(type, body, outcome) ==
    /\ Len(namespaces) < MaxNamespaces
    /\ namespaces' =
           IF outcome = "constructed"
           THEN Append(namespaces, Constructed(type, body))
           ELSE namespaces
    /\ ipcLast' = [NoIpcCall EXCEPT
                      !.op = "new",
                      !.ns = IF outcome = "constructed" THEN Len(namespaces) + 1 ELSE 0,
                      !.res = outcome]
    /\ UNCHANGED << handlers, latest >>
    /\ UNCHANGED << serviceVars, limiterVars, loggerVars, otherVars >>

\* A caller asks instance n for the channel and for the action of a name.
Ask(n, name) ==
    /\ ipcLast' = [NoIpcCall EXCEPT
                      !.op = "ask", !.ns = n, !.name = name,
                      !.channel = getChannel(n, name),
                      !.action = getAction(n, name)]
    /\ UNCHANGED << namespaces, handlers, latest >>
    /\ UNCHANGED << serviceVars, limiterVars, loggerVars, otherVars >>

\* The registry of instance n after a caller pushes `name` onto the array that
\* getActions() returned, had getActions() returned the registry's own storage.
AfterPush_SharedStorage(n, name) == Append(namespaces[n].actionRegistry, name)

\* The registry of instance n after a caller pushes `name` onto the array that
\* getActions() returned: `[...this.actionRegistry]` is a new array.
AfterPush(n, name) == namespaces[n].actionRegistry

\* A caller takes getActions() of instance n and pushes a name onto it.
PushOnActions(n, name) ==
    /\ namespaces' = [namespaces EXCEPT ![n].actionRegistry = AfterPush(n, name)]
    /\ ipcLast' = [NoIpcCall EXCEPT !.op = "push", !.ns = n, !.name = name]
    /\ UNCHANGED << handlers, latest >>
    /\ UNCHANGED << serviceVars, limiterVars, loggerVars, otherVars >>

\* ============================================================= IPCHandler

\* What ipcMain.handle(channel, ...) stores in register(): a function closed
\* over `namespace` and `method`.
Handler(n, method) == [ns |-> n, action |-> method]

\* register() that installs a handler only on a channel that has none.
RECURSIVE register_KeepsFirstHandler(_, _, _)
register_KeepsFirstHandler(n, i, table) ==
    IF i > Len(getActions(n)) THEN [handlers |-> table, res |-> "returned", name |-> "-"]
    ELSE LET name == getActions(n)[i]
             channel == getChannel(n, name)
             method == getAction(n, name)
         IN  IF channel = "undefined" THEN register_KeepsFirstHandler(n, i + 1, table)
             ELSE IF method = "undefined"
                  THEN [handlers |-> [table EXCEPT ![channel] = NoHandler],
                        res |-> "threw", name |-> name]
                  ELSE register_KeepsFirstHandler(n, i + 1,
                           IF table[channel] = NoHandler
                           THEN [table EXCEPT ![channel] = Handler(n, method)]
                           ELSE table)

\* register() that looks for the method before it removes the old handler: a
\* call that throws leaves the channel bound as it was.
RECURSIVE register_ChecksBeforeRemoving(_, _, _)
register_ChecksBeforeRemoving(n, i, table) ==
    IF i > Len(getActions(n)) THEN [handlers |-> table, res |-> "returned", name |-> "-"]
    ELSE LET name == getActions(n)[i]
             channel == getChannel(n, name)
             method == getAction(n, name)
         IN  IF channel = "undefined" THEN register_ChecksBeforeRemoving(n, i + 1, table)
             ELSE IF method = "undefined"
                  THEN [handlers |-> table, res |-> "threw", name |-> name]
                  ELSE register_ChecksBeforeRemoving(n, i + 1,
                           [table EXCEPT ![channel] = Handler(n, method)])

\* The forEach of register(), from the i-th action on, over ipcMain's table:
\* the table it leaves, and whether it returned or threw (and at which name).
RECURSIVE register(_, _, _)
register(n, i, table) ==
    IF i > Len(getActions(n)) THEN [handlers |-> table, res |-> "returned", name |-> "-"]
    ELSE LET name == getActions(n)[i]
             channel == getChannel(n, name)
             method == getAction(n, name)
             removed == [table EXCEPT ![channel] = NoHandler]
         IN  IF channel = "undefined" THEN register(n, i + 1, table)
             ELSE IF method = "undefined"
                  THEN [handlers |-> removed, res |-> "threw", name |-> name]
                  ELSE register(n, i + 1, [removed EXCEPT ![channel] = Handler(n, method)])

\* The registered names register() gets to: all of them, or those up to the
\* first one that is not a function member.
RECURSIVE ReachedNames(_, _)
ReachedNames(n, i) ==
    IF i > Len(getActions(n)) THEN { }
    ELSE IF getActions(n)[i] \in namespaces[n].methods
         THEN {getActions(n)[i]} \cup ReachedNames(n, i + 1)
         ELSE {getActions(n)[i]}

ChannelsOf(n, names) == { ChannelName(namespaces[n].type, a) : a \in names }

Register(n) ==
    /\ handlers' = register(n, 1, handlers).handlers
    /\ latest' = [ch \in Channels |->
           [named |-> IF ch \in ChannelsOf(n, { getActions(n)[i] : i \in 1 .. Len(getActions(n)) })
                      THEN n ELSE latest[ch].named,
            reached |-> IF ch \in ChannelsOf(n, ReachedNames(n, 1))
                        THEN n ELSE latest[ch].reached]]
    /\ ipcLast' = [NoIpcCall EXCEPT
                      !.op = "register", !.ns = n,
                      !.name = register(n, 1, handlers).name,
                      !.res = register(n, 1, handlers).res]
    /\ UNCHANGED namespaces
    /\ UNCHANGED << serviceVars, limiterVars, loggerVars, otherVars >>

\* What a bound action does when it is called: it returns or resolves, it
\* throws, or it returns a promise that rejects.
ActionOutcomes == {"returns", "throws", "rejects"}

\* What it throws or rejects with: an Error with a message, undefined, or an
\* object that String() cannot convert (one without a prototype).
Thrown == {"Error", "undefined", "bare object"}

\* `String(error?.message ?? error ?? "Unknown error")`; "TypeError" when
\* String() throws.
MessageOf(error) ==
    IF error = "Error" THEN "the message of the Error"
    ELSE IF error = "undefined" THEN "Unknown error"
    ELSE "TypeError"

\* The handler of register(): try { return await method.call(namespace, ...) }
\* catch { return { status: 500, message } }.
HandlerResult(how, error) ==
    IF how = "returns" THEN [res |-> "result", status |-> 200, message |-> "-"]
    ELSE IF MessageOf(error) = "TypeError"
         THEN [res |-> "rejected", status |-> 0, message |-> "-"]
         ELSE [res |-> "failure", status |-> 500, message |-> MessageOf(error)]

\* A handler that passes the call's arguments and leaves the event out.
MethodCall_WithoutEvent(handler, event, args) ==
    [receiver |-> handler.ns, method |-> handler.action, arguments |-> args]

\* `method.call(namespace, event, ...args)` in the handler of register().
MethodCall(handler, event, args) ==
    [receiver |-> handler.ns, method |-> handler.action,
     arguments |-> << event >> \o args]

\* The transport invokes a channel.  Without a handler ipcMain itself rejects
\* the call; with one, the handler calls the method it closed over.
Invoke(channel, args, how, error) ==
    /\ namespaces # << >>
    /\ how = "returns" => error = "undefined"
    /\ ipcLast' =
           IF handlers[channel] = NoHandler
           THEN [NoIpcCall EXCEPT !.op = "invoke", !.channel = channel, !.res = "no handler"]
           ELSE [NoIpcCall EXCEPT
                    !.op = "invoke", !.channel = channel, !.how = how,
                    !.reached = handlers[channel],
                    !.received = MethodCall(handlers[channel], InvokeEvent, args),
                    !.res = HandlerResult(how, error).res,
                    !.status = HandlerResult(how, error).status,
                    !.message = HandlerResult(how, error).message]
    /\ UNCHANGED << namespaces, handlers, latest >>
    /\ UNCHANGED << serviceVars, limiterVars, loggerVars, otherVars >>

NamespaceNext ==
    \/ \E type \in TypeNames, body \in ClassBodies, outcome \in ConstructionOutcomes :
           NewNamespace(type, body, outcome)
    \/ \E n \in NamespaceIds, name \in ActionNames : Ask(n, name)
    \/ \E n \in NamespaceIds, name \in ActionNames \cup {"injected"} : PushOnActions(n, name)
    \/ \E n \in NamespaceIds : Register(n)
    \/ \E channel \in Channels, args \in InvocationArgs, how \in ActionOutcomes,
          error \in Thrown :
           Invoke(channel, args, how, error)

NamespaceSpec == Init /\ [][NamespaceNext]_vars

\* --------------------------------------------------- claims on the namespaces

RegisteredNames(n) == { getActions(n)[i] : i \in 1 .. Len(getActions(n)) }

\* C11: a handler installed by register() never throws or rejects towards the
\* transport: whenever the bound action throws or returns a promise that
\* rejects, the handler returns an object with status 500 and a string message.
C11_HandlerNeverRejects ==
    (ipcLast.op = "invoke" /\ ipcLast.how \in {"throws", "rejects"})
        => /\ ipcLast.res = "failure"
           /\ ipcLast.status = 500
           /\ ipcLast.message # "-"

\* C12: after any sequence of register() calls a channel has at most one
\* handler, and it is the one of the latest register() call whose namespace has
\* that channel; invoking the channel reaches that instance's action only.
C12_LatestRegistrationOwnsChannel ==
    /\ \A ch \in Channels :
           handlers[ch] # NoHandler => handlers[ch].ns = latest[ch].named
    /\ (ipcLast.op = "invoke" /\ ipcLast.reached # NoHandler)
           => ipcLast.reached.ns = latest[ipcLast.channel].named

\* C12, amended: a channel has at most one handler, and it is the one of the
\* latest register() call that got as far as the channel's action (a call that
\* returns gets to every action of its namespace; one that throws at a name
\* that is no function member leaves that channel without a handler and the
\* channels of the later names as they were).
C12_LatestReachingRegistrationOwnsChannel ==
    /\ \A ch \in Channels :
           IF latest[ch].reached = 0 THEN handlers[ch] = NoHandler
           ELSE \E a \in RegisteredNames(latest[ch].reached) :
                    /\ ch = ChannelName(namespaces[latest[ch].reached].type, a)
                    /\ handlers[ch] =
                           IF a \in namespaces[latest[ch].reached].methods
                           THEN Handler(latest[ch].reached, a)
                           ELSE NoHandler
    /\ (ipcLast.op = "invoke" /\ ipcLast.reached # NoHandler)
           => ipcLast.reached.ns = latest[ipcLast.channel].reached

\* Two instances of one type were registered one after the other, and the
\* channel invoked reaches the later one although the earlier one has it too.
C12_Witness ==
    /\ ipcLast.op = "invoke"
    /\ ipcLast.reached.ns = 2
    /\ Len(namespaces) = 2
    /\ namespaces[1].type = namespaces[2].type
    /\ ipcLast.reached.action \in RegisteredNames(1)
    /\ ipcLast.reached.action \in namespaces[1].methods
    /\ \E ch \in Channels : handlers[ch].ns = 1

\* C13: in every constructed namespace instance "ping" is in the action
\* registry: getChannel("ping") is "<TypeName>:ping", getAction("ping") is
\* callable, and register() binds a handler on "<TypeName>:ping".
C13_PingBuiltIn ==
    /\ \A n \in NamespaceIds :
           /\ "ping" \in RegisteredNames(n)
           /\ namespaces[n].type = "Settings" => getChannel(n, "ping") = "Settings:ping"
           /\ namespaces[n].type = "Project" => getChannel(n, "ping") = "Project:ping"
           /\ getAction(n, "ping") = "ping"
    /\ ipcLast.op = "register"
           => handlers[getChannel(ipcLast.ns, "ping")] = Handler(ipcLast.ns, "ping")

\* register() threw at a later name, and ping is bound all the same.
C13_Witness ==
    /\ ipcLast.op = "register"
    /\ ipcLast.res = "threw"
    /\ handlers["Settings:ping"] = Handler(ipcLast.ns, "ping")

\* C14: for every instance N and every name a in N's action registry,
\* getChannel(a) is "<type name of N>:<a>" and getAction(a) returns a callable
\* member of N.
C14_EveryRegisteredActionCallable ==
    \A n \in NamespaceIds : \A a \in RegisteredNames(n) :
        /\ getChannel(n, a) = ChannelName(namespaces[n].type, a)
        /\ getAction(n, a) # "undefined"

\* C14, amended: for every name a in N's registry getChannel(a) is
\* "<type name of N>:<a>"; getAction(a) returns the member a of N when it is a
\* function and nothing otherwise; it is callable for every registered name of
\* an instance on which register() returned.
C14_RegisteredActionResolves ==
    /\ \A n \in NamespaceIds : \A a \in RegisteredNames(n) :
           /\ getChannel(n, a) = ChannelName(namespaces[n].type, a)
           /\ (namespaces[n].type = "Project" /\ a = "updateUser")
                  => getChannel(n, a) = "Project:updateUser"
           /\ getAction(n, a) = IF a \in namespaces[n].methods THEN a ELSE "undefined"
    /\ (ipcLast.op = "ask" /\ ipcLast.name \in RegisteredNames(ipcLast.ns))
           => /\ ipcLast.channel = ChannelName(namespaces[ipcLast.ns].type, ipcLast.name)
              /\ ipcLast.action \in {ipcLast.name, "undefined"}
    /\ (ipcLast.op = "register" /\ ipcLast.res = "returned")
           => \A a \in RegisteredNames(ipcLast.ns) : getAction(ipcLast.ns, a) = a

\* A caller asked for a registered action and got its channel and the member.
C14_Witness ==
    /\ ipcLast.op = "ask"
    /\ ipcLast.name \in RegisteredNames(ipcLast.ns)
    /\ ipcLast.channel = "Project:updateUser"
    /\ ipcLast.action = "updateUser"

\* C15: a member whose name is not in the instance's action registry is never
\* returned by getAction, never yields a channel from getChannel, and never
\* gets a handler installed by register().
C15_UnregisteredMemberUnreachable ==
    /\ \A n \in NamespaceIds : \A name \in ActionNames \ RegisteredNames(n) :
           /\ getAction(n, name) = "undefined"
           /\ getChannel(n, name) = "undefined"
           /\ \A ch \in Channels : handlers[ch] # Handler(n, name)
    /\ (ipcLast.op = "ask" /\ ipcLast.name \notin RegisteredNames(ipcLast.ns))
           => ipcLast.channel = "undefined" /\ ipcLast.action = "undefined"
    /\ (ipcLast.op = "invoke" /\ ipcLast.reached # NoHandler)
           => ipcLast.reached.action \in RegisteredNames(ipcLast.reached.ns)

\* An instance with a method that is not registered was registered with the
\* IPC handler, and the caller asked for that method.
C15_Witness ==
    /\ ipcLast.op = "ask"
    /\ ipcLast.name \in namespaces[ipcLast.ns].methods
    /\ ipcLast.name \notin RegisteredNames(ipcLast.ns)
    /\ handlers[getChannel(ipcLast.ns, "ping")] = Handler(ipcLast.ns, "ping")

\* ============================================================== Ratelimit

\* `timestamps.filter((timestamp) => now - timestamp < ms)`
Surviving(timestamps, t, ms) == SelectSeq(timestamps, LAMBDA timestamp : t - timestamp < ms)

\* The wrapper with a filter that keeps a timestamp as old as the window.
Ratelimit_KeepsWindowOld(map, a, r, t) ==
    LET timestamps == SelectSeq(map[a][r], LAMBDA timestamp : t - timestamp <= Limits[a].ms)
    IN  IF Len(timestamps) >= Limits[a].every
        THEN [map |-> map, res |-> "rejected",
              waitTime |-> Limits[a].ms - (t - timestamps[1])]
        ELSE [map |-> [map EXCEPT ![a][r] = Append(timestamps, t)],
              res |-> "invoked", waitTime |-> 0]

\* The wrapper that rejects only above the maximum.
Ratelimit_OneTooMany(map, a, r, t) ==
    LET timestamps == Surviving(map[a][r], t, Limits[a].ms)
    IN  IF Len(timestamps) > Limits[a].every
        THEN [map |-> map, res |-> "rejected",
              waitTime |-> Limits[a].ms - (t - timestamps[1])]
        ELSE [map |-> [map EXCEPT ![a][r] = Append(timestamps, t)],
              res |-> "invoked", waitTime |-> 0]

\* The wrapper that records the time of a rejected call too.
Ratelimit_CountsRejected(map, a, r, t) ==
    LET timestamps == Surviving(map[a][r], t, Limits[a].ms)
    IN  IF Len(timestamps) >= Limits[a].every
        THEN [map |-> [map EXCEPT ![a][r] = Append(timestamps, t)], res |-> "rejected",
              waitTime |-> Limits[a].ms - (t - timestamps[1])]
        ELSE [map |-> [map EXCEPT ![a][r] = Append(timestamps, t)],
              res |-> "invoked", waitTime |-> 0]

\* The wrapper with one list per action, whatever the instance.
Ratelimit_OneListPerAction(map, a, r, t) ==
    LET timestamps == Surviving(map[a][r], t, Limits[a].ms)
    IN  IF Len(timestamps) >= Limits[a].every
        THEN [map |-> map, res |-> "rejected",
              waitTime |-> Limits[a].ms - (t - timestamps[1])]
        ELSE [map |-> [map EXCEPT ![a] = [q \in Receivers |-> Append(timestamps, t)]],
              res |-> "invoked", waitTime |-> 0]

\* The wrapper that computes the waitTime from the newest timestamp.
Ratelimit_WaitFromNewest(map, a, r, t) ==
    LET timestamps == Surviving(map[a][r], t, Limits[a].ms)
    IN  IF Len(timestamps) >= Limits[a].every
        THEN [map |-> map, res |-> "rejected",
              waitTime |-> Limits[a].ms - (t - timestamps[Len(timestamps)])]
        ELSE [map |-> [map EXCEPT ![a][r] = Append(timestamps, t)],
              res |-> "invoked", waitTime |-> 0]

\* The function Ratelimit(ms, every) puts in place of action a, called on
\* instance r when Date.now() reads t, over the stored lists `map`: the lists
\* it leaves, whether the original method is invoked, and the waitTime of a
\* rejection.
Ratelimit(map, a, r, t) ==
    LET timestamps == Surviving(map[a][r], t, Limits[a].ms)
    IN  IF Len(timestamps) >= Limits[a].every
        THEN [map |-> map, res |-> "rejected",
              waitTime |-> Limits[a].ms - (t - timestamps[1])]
        ELSE [map |-> [map EXCEPT ![a][r] = Append(timestamps, t)],
              res |-> "invoked", waitTime |-> 0]

\* `${msg.message}. Try again in ${waitTime}ms`
RejectionText(waitTime) ==
    RejectionMessage \o ". Try again in " \o ToString(waitTime) \o "ms"

\* History: the times at which the original method of (a, r) ran, kept as long
\* as they are no further than the window behind the latest of them.
Ran(a, r, t) ==
    Append(SelectSeq(invoked[a][r], LAMBDA at : t - at <= Limits[a].ms), t)

\* Instance r's rate-limited action a is called when the clock reads t; the
\* clock never goes back.
LimitedCall(a, r, t) ==
    /\ t >= now
    /\ now' = t
    /\ callTimestamps' = Ratelimit(callTimestamps, a, r, t).map
    /\ invoked' =
           IF Ratelimit(callTimestamps, a, r, t).res = "invoked"
           THEN [invoked EXCEPT ![a][r] = Ran(a, r, t)]
           ELSE invoked
    /\ rlLast' =
           IF Ratelimit(callTimestamps, a, r, t).res = "invoked"
           THEN [on |-> r, action |-> a, at |-> t, res |-> "invoked", status |-> 200,
                 waitTime |-> 0, message |-> "-"]
           ELSE [on |-> r, action |-> a, at |-> t, res |-> "rejected", status |-> 429,
                 waitTime |-> Ratelimit(callTimestamps, a, r, t).waitTime,
                 message |-> RejectionText(Ratelimit(callTimestamps, a, r, t).waitTime)]
    /\ UNCHANGED << serviceVars, namespaceVars, loggerVars, otherVars >>

RatelimitNext ==
    \E a \in Limited, r \in Receivers, t \in ClockReadings : LimitedCall(a, r, t)

RatelimitSpec == Init /\ [][RatelimitNext]_vars

\* --------------------------------------------------- claims on the rate limiter

\* The number of runs of (a, r)'s original method recorded no more than `age`
\* ms before its latest run (the latest run counts).
RunsWithin(a, r, age) ==
    Cardinality({ i \in 1 .. Len(invoked[a][r]) :
                    invoked[a][r][Len(invoked[a][r])] - invoked[a][r][i] <= age })

\* Whether a call of (a, r) at reading t would run the original method.
Accepts(a, r, t) == Ratelimit(callTimestamps, a, r, t).res = "invoked"

\* The same once the current call has returned.
AcceptsAfter(a, r, t) == Ratelimit(callTimestamps', a, r, t).res = "invoked"

C17_RejectionLeavesWindow ==
    [][rlLast'.res = "rejected"
          => /\ callTimestamps' = callTimestamps
             /\ invoked' = invoked
             /\ \A t \in ClockReadings :
                    t >= now' => (AcceptsAfter(rlLast'.action, rlLast'.on, t)
                                    = Accepts(rlLast'.action, rlLast'.on, t))]_vars

\* A call was rejected while the list held the maximum of timestamps.
C17_Witness ==
    /\ rlLast.res = "rejected"
    /\ rlLast.at > 0
    /\ Len(callTimestamps[rlLast.action][rlLast.on]) = Limits[rlLast.action].every

\* C18: a call is accepted when fewer than M runs lie less than W ms back (so M
\* calls at one instant are accepted, and so is a call once the window has
\* elapsed); otherwise it is rejected with the waitTime
\* W - (now - oldest surviving timestamp), which is above 0 and at most W.
C18_WaitTime ==
    [][LET a == rlLast'.action
           r == rlLast'.on
           t == rlLast'.at
           recent == { i \in 1 .. Len(invoked[a][r]) : t - invoked[a][r][i] < Limits[a].ms }
           oldest == CHOOSE i \in recent : \A j \in recent : invoked[a][r][i] <= invoked[a][r][j]
       IN  IF Cardinality(recent) < Limits[a].every
           THEN rlLast'.res = "invoked"
           ELSE /\ rlLast'.res = "rejected"
                /\ rlLast'.status = 429
                /\ rlLast'.waitTime = Limits[a].ms - (t - invoked[a][r][oldest])
                /\ rlLast'.waitTime > 0
                /\ rlLast'.waitTime <= Limits[a].ms
                /\ a = "getUser" /\ t - invoked[a][r][oldest] = 999
                       => rlLast'.message = "Rate limit exceeded. Try again in 1ms"]_vars

\* Three calls at one instant ran; the next one, 999 ms later, is told to wait
\* 1 ms.
C18_Witness ==
    /\ rlLast.res = "rejected"
    /\ rlLast.action = "getUser"
    /\ rlLast.at = 999
    /\ invoked.getUser[rlLast.on] = << 0, 0, 0 >>
    /\ rlLast.waitTime = 1
    /\ rlLast.message = "Rate limit exceeded. Try again in 1ms"

\* C19: the state is separate per (instance, action): a call leaves the list of
\* every other pair as it is, and with it the outcome of every call on another
\* instance or on another action of the same instance.
C19_WindowPerInstanceAndAction ==
    [][\A a \in Limited, r \in Receivers :
           (a # rlLast'.action \/ r # rlLast'.on)
               => /\ callTimestamps'[a][r] = callTimestamps[a][r]
                  /\ \A t \in ClockReadings : AcceptsAfter(a, r, t) = Accepts(a, r, t)]_vars

\* One pair is at its maximum and was just rejected, while the same action on
\* the other instance and the other action on the same instance are accepted.
C19_Witness ==
    /\ rlLast.res = "rejected"
    /\ \E r \in Receivers \ {rlLast.on} : Accepts(rlLast.action, r, now)
    /\ \E a \in Limited \ {rlLast.action} :
           /\ callTimestamps[a][rlLast.on] # << >>
           /\ Accepts(a, rlLast.on, now)

\* ================================================================= Logger

\* enum LogLevel
Levels == {"DEBUG", "INFO", "WARN", "ERROR"}

\* The transports a client adds; "console" is Logger._consoleTransport.
AddedTransports == {"file", "remote"}

\* The context a log call passes: none (<< >>, the argument is undefined) or
\* an object.
NoContext == << >>

CallContexts == {NoContext, [user |-> "call"]}

\* The logger itself and the loggers with(scope, baseCtx) derives from it.
BaseLogger == [name |-> "logger", derived |-> FALSE, scope |-> "-", baseCtx |-> NoContext]

DerivedLoggers ==
    { [name |-> "ipc", derived |-> TRUE, scope |-> "ipc",
       baseCtx |-> [req |-> "base", user |-> "base"]],
      [name |-> "window", derived |-> TRUE, scope |-> "window", baseCtx |-> NoContext] }

\* `{ ...a, ...b }`: the keys of both, b's value where both have the key.
Spread(a, b) == b @@ a

\* What the logger's own debug / info / warn / error hand to route() as ctx.
\* error() takes an object as it is and wraps anything else in `detail`.
OwnContext(level, c) ==
    IF level = "ERROR" /\ c = NoContext THEN [detail |-> "undefined"] ELSE c

\* A with() that kept scope and baseCtx on the parent instead of in the closure
\* of the derived logger: every later call, on any logger, is stamped with them.
RoutedContext_KeptOnParent(via, level, c) ==
    IF derived = {} THEN OwnContext(level, c)
    ELSE LET kept == CHOOSE d \in derived : TRUE
         IN  OwnContext(level, Spread(Spread(kept.baseCtx, c), [scope |-> kept.scope]))

\* What a call on `via` hands to route(): a derived logger calls the parent's
\* method with { ...baseCtx, ...c, scope }, its error() with
\* { ...err?.ctx, scope }, where err is the argument c and has no ctx member.
RoutedContext(via, level, c) ==
    IF ~via.derived THEN OwnContext(level, c)
    ELSE IF level = "ERROR" THEN OwnContext(level, Spread(NoContext, [scope |-> via.scope]))
    ELSE OwnContext(level, Spread(Spread(via.baseCtx, c), [scope |-> via.scope]))

\* format(): `scope: ctx?.scope || undefined`, and ctx as passed.
Format(level, ctx) ==
    [lvl |-> level,
     scope |-> IF "scope" \in DOMAIN ctx THEN ctx.scope ELSE "undefined",
     ctx |-> ctx]

\* `this.debug` in route(): the member debug of the logger, which is the method
\* debug() and not the flag isDebug; `!this.debug` is false whatever isDebug is.
DebugMember == TRUE

\* route(): `if (level === LogLevel.DEBUG && !this.debug) return;`
Dropped(level) == level = "DEBUG" /\ ~DebugMember

\* emit(): `for (const t of this.transports) t(rec)`; a transport that throws
\* ends the loop.  The number of transports that are called.
Called(failing) ==
    IF \E i \in 1 .. Len(transports) : transports[i] = failing
    THEN CHOOSE i \in 1 .. Len(transports) :
             /\ transports[i] = failing
             /\ \A j \in 1 .. i - 1 : transports[j] # failing
    ELSE Len(transports)

\* `new Logger(isDebug)`: the transport list starts as [consoleTransport].
NewLogger(debug) ==
    /\ transports = << >>
    /\ isDebug' = debug
    /\ transports' = << "console" >>
    /\ derived' = {}
    /\ delivered' = << >>
    /\ logLast' = [NoLogCall EXCEPT !.op = "new"]
    /\ UNCHANGED << serviceVars, namespaceVars, limiterVars, otherVars >>

AddTransport(t) ==
    /\ transports # << >>
    /\ Len(transports) < MaxTransports
    /\ transports' = Append(transports, t)
    /\ delivered' = << >>
    /\ logLast' = [NoLogCall EXCEPT !.op = "addTransport"]
    /\ UNCHANGED << isDebug, derived >>
    /\ UNCHANGED << serviceVars, namespaceVars, limiterVars, otherVars >>

RemoveTransport(t) ==
    /\ transports # << >>
    /\ transports' = SelectSeq(transports, LAMBDA x : x # t)
    /\ delivered' = << >>
    /\ logLast' = [NoLogCall EXCEPT !.op = "removeTransport"]
    /\ UNCHANGED << isDebug, derived >>
    /\ UNCHANGED << serviceVars, namespaceVars, limiterVars, otherVars >>

\* with(scope, baseCtx): a new object with the parent's own fields and four
\* methods that close over parent, scope and baseCtx; the parent is not written.
With(d) ==
    /\ transports # << >>
    /\ d \notin derived
    /\ derived' = derived \cup {d}
    /\ delivered' = << >>
    /\ logLast' = [NoLogCall EXCEPT !.op = "with", !.via = d.name]
    /\ UNCHANGED << isDebug, transports >>
    /\ UNCHANGED << serviceVars, namespaceVars, limiterVars, otherVars >>

\* debug / info / warn / error is called on the logger or on a derived logger
\* with context c; `failing` is the transport that throws on this record.
Log(via, level, c, failing) ==
    /\ transports # << >>
    /\ via \in {BaseLogger} \cup derived
    /\ failing = "none" \/ \E i \in 1 .. Len(transports) : transports[i] = failing
    /\ delivered' =
           IF Dropped(level) THEN << >>
           ELSE [i \in 1 .. Called(failing) |->
                    [to |-> transports[i]] @@ Format(level, RoutedContext(via, level, c))]
    /\ logLast' = [op |-> "log", lvl |-> level, via |-> via.name, ctx |-> c,
                   failing |-> failing,
                   before |-> IF logLast.op = "log" THEN logLast.via ELSE "-",
                   res |-> IF ~Dropped(level) /\ failing # "none"
                           THEN "threw" ELSE "returned"]
    /\ UNCHANGED << isDebug, transports, derived >>
    /\ UNCHANGED << serviceVars, namespaceVars, limiterVars, otherVars >>

LoggerNext ==
    \/ \E debug \in BOOLEAN : NewLogger(debug)
    \/ \E t \in AddedTransports : AddTransport(t)
    \/ \E t \in AddedTransports : RemoveTransport(t)
    \/ \E d \in DerivedLoggers : With(d)
    \/ \E via \in {BaseLogger} \cup DerivedLoggers, level \in Levels,
          c \in CallContexts, failing \in {"none", "console"} \cup AddedTransports :
           Log(via, level, c, failing)

LoggerSpec == Init /\ [][LoggerNext]_vars

\* ------------------------------------------------------ claims on the logger

\* C20: when debug mode is off (isDebug is false), a call to debug() delivers
\* no record to any transport.
C20_DebugDroppedWhenNotDebug ==
    (logLast.op = "log" /\ logLast.lvl = "DEBUG" /\ ~isDebug) => delivered = << >>

\* The logger (base or derived) of a given name.
LoggerOf(name) == CHOOSE l \in {BaseLogger} \cup DerivedLoggers : l.name = name

\* The most recent call is a log call whose record route() does not filter.
Routed == logLast.op = "log" /\ (logLast.lvl # "DEBUG" \/ isDebug)

\* C21: if one transport of the list throws on a record, every later transport
\* of the list still receives the record and the log call returns normally.
C21_TransportFailureIsolated ==
    (Routed /\ logLast.failing # "none") =>
        /\ Len(delivered) = Len(transports)
        /\ \A i \in 1 .. Len(transports) : delivered[i].to = transports[i]
        /\ logLast.res = "returned"

\* C22: an INFO, WARN or ERROR call delivers one record to each entry of the
\* transport list, in list order; the list is the console transport followed
\* by the transports added and not removed since.
C22_OneRecordPerTransportInOrder ==
    (logLast.op = "log" /\ logLast.lvl \in {"INFO", "WARN", "ERROR"}) =>
        /\ Head(transports) = "console"
        /\ \A i \in 2 .. Len(transports) : transports[i] \in AddedTransports
        /\ Len(delivered) = Len(transports)
        /\ \A i \in 1 .. Len(transports) :
               delivered[i].to = transports[i] /\ delivered[i].lvl = logLast.lvl

\* C23: the records of a call on one logger carry neither the scope nor the
\* base context of a derived logger the call was not made on, whatever
\* loggers with() has derived and whatever was logged through them before.
C23_DerivedLoggerLeavesOthersAlone ==
    logLast.op = "log" =>
        \A i \in 1 .. Len(delivered) : \A d \in derived :
            d.name # logLast.via =>
                /\ delivered[i].scope # d.scope
                /\ "scope" \in DOMAIN delivered[i].ctx => delivered[i].ctx.scope # d.scope
                /\ \A k \in DOMAIN d.baseCtx :
                       k \in DOMAIN delivered[i].ctx =>
                           /\ k \in DOMAIN logLast.ctx \cup DOMAIN LoggerOf(logLast.via).baseCtx
                           /\ k \in DOMAIN logLast.ctx => delivered[i].ctx[k] = logLast.ctx[k]

\* A call on the logger itself, with its own context, right after a call on
\* the derived logger "ipc", while the derived logger "window" exists as well.
C23_Witness ==
    /\ logLast.op = "log"
    /\ logLast.via = "logger"
    /\ logLast.before = "ipc"
    /\ logLast.ctx = [user |-> "call"]
    /\ DerivedLoggers \subseteq derived
    /\ delivered # << >>
    /\ delivered[1].ctx = [user |-> "call"]
    /\ delivered[1].scope = "undefined"

\* C24: every record of a call on a derived logger, at any level, has the
\* derived scope, and its context has every key of baseCtx, with baseCtx's
\* value unless the call's own context has the key.
C24_DerivedRecordCarriesScopeAndBase ==
    (logLast.op = "log" /\ LoggerOf(logLast.via).derived) =>
        \A i \in 1 .. Len(delivered) :
            /\ delivered[i].scope = LoggerOf(logLast.via).scope
            /\ \A k \in DOMAIN LoggerOf(logLast.via).baseCtx :
                   /\ k \in DOMAIN delivered[i].ctx
                   /\ k \notin DOMAIN logLast.ctx =>
                          delivered[i].ctx[k] = LoggerOf(logLast.via).baseCtx[k]

\* C28: once an instance is constructed its action registry never changes:
\* getAction, getActions, getChannel (Ask), register(), handler invocations
\* and a push onto the array getActions() returned all leave it as it was.
C28_RegistryFixedAfterConstruction ==
    [][ \A n \in 1 .. Len(namespaces) :
            /\ n <= Len(namespaces')
            /\ namespaces'[n].actionRegistry = namespaces[n].actionRegistry
      ]_vars

\* A name was pushed onto the array getActions() returned for an instance
\* whose channels are bound, and the registry holds the constructed names.
C28_Witness ==
    /\ ipcLast.op = "push"
    /\ ipcLast.name = "injected"
    /\ namespaces[ipcLast.ns].actionRegistry = << "ping", "getUser", "updateUser" >>
    /\ handlers[ChannelName(namespaces[ipcLast.ns].type, "getUser")].ns = ipcLast.ns

\* ======================================================= Settings (service)

\* isPlainObject(): an object that is neither null nor an array.
isPlainObject(value) == value.kind = "object"

\* A merge that replaces every member the patch has, as Object.assign does.
deepMerge_Shallow(base, patch) ==
    [key \in DOMAIN base \cup DOMAIN patch |->
        IF key \in DOMAIN patch THEN patch[key] ELSE base[key]]

\* deepMerge(base, patch): a copy of base in which each member of the patch
\* replaces the member of that key, unless both are plain objects, which are
\* merged in the same way.
RECURSIVE deepMerge(_, _)
deepMerge(base, patch) ==
    [key \in DOMAIN base \cup DOMAIN patch |->
        IF key \notin DOMAIN patch THEN base[key]
        ELSE IF key \in DOMAIN base /\ isPlainObject(base[key]) /\ isPlainObject(patch[key])
             THEN Object(deepMerge(base[key].map, patch[key].map))
             ELSE patch[key]]

\* JSON.stringify(data, null, 2) in writeAtomic(): the text is written here as
\* the object it denotes; a member whose value is undefined is left out.
RECURSIVE Stringify(_)
Stringify(data) ==
    [key \in { k \in DOMAIN data : data[k].kind # "undefined" } |->
        IF isPlainObject(data[key]) THEN Object(Stringify(data[key].map)) ELSE data[key]]

\* File.safeObject({}): the fallback when the file does not exist, else
\* JSON.parse of its text.
safeReadJson(filePath) ==
    IF ~files[filePath].exists THEN EmptyObject ELSE files[filePath].text

\* atomicWriteJson(filePath, data): write `${path}.tmp`, then rename it.
atomicWriteJson(filePath, data) ==
    [files EXCEPT ![filePath] = [exists |-> TRUE, text |-> Stringify(data)]]

\* getUser() / getProject(projectRoot)
Read(op, filePath) ==
    /\ setLast' = [NoSettingsCall EXCEPT
                      !.op = op, !.via = "service", !.path = filePath,
                      !.status = 200, !.data = safeReadJson(filePath)]
    /\ UNCHANGED << files, returned >>
    /\ UNCHANGED << serviceVars, namespaceVars, limiterVars, loggerVars,
                    singletonVars, decoratorVars, hostVars >>

\* updateUser(patch) / updateProject(projectRoot, patch)
Update(op, filePath, patch) ==
    LET updated == deepMerge(safeReadJson(filePath), patch)
    IN  /\ files' = atomicWriteJson(filePath, updated)
        /\ returned' = [returned EXCEPT ![filePath] = updated]
        /\ setLast' = [NoSettingsCall EXCEPT
                          !.op = op, !.via = "service", !.path = filePath,
                          !.patch = patch, !.status = 200, !.data = updated]
        /\ UNCHANGED << serviceVars, namespaceVars, limiterVars, loggerVars,
                        singletonVars, decoratorVars, hostVars >>

GetUser == Read("getUser", UserSettingsPath)

UpdateUser(patch) == Update("updateUser", UserSettingsPath, patch)

GetProject(projectRoot) == Read("getProject", ProjectSettingsPath(projectRoot))

UpdateProject(projectRoot, patch) ==
    Update("updateProject", ProjectSettingsPath(projectRoot), patch)

\* Calls on a Settings service object, as the tests make them.
SettingsNext ==
    \/ GetUser
    \/ \E patch \in Patches : UpdateUser(patch)
    \/ \E projectRoot \in ProjectRoots : GetProject(projectRoot)
    \/ \E projectRoot \in ProjectRoots, patch \in Patches :
           UpdateProject(projectRoot, patch)

SettingsSpec == Init /\ [][SettingsNext]_vars

\* ======================================= Settings (namespace) behind the App

\* App.initServices(): add the Logger and the IPCHandler to the registry, which
\* is not ready, and call init(), which runs up to the await of the first
\* entry's init hook.
AppInitServices ==
    /\ ~ready
    /\ ~Has("Logger") /\ ~Has("IPCHandler")
    /\ calls[1].pc = "idle"
    /\ LET added == MapSet(MapSet(registry, "Logger", 1), "IPCHandler", 2)
       IN  /\ registry' = added
           /\ calls' = [Retired EXCEPT ![1] =
                  Call("init", "await", 1, << >>, << Visit(added[1]) >>)]
    /\ last' = NoCall
    /\ UNCHANGED ready
    /\ UNCHANGED << namespaceVars, limiterVars, loggerVars, otherVars >>

\* A ReqService that hands out a service object whatever the registry says.
ReqService_AlwaysServes(key) == "service"

\* ReqService(key): ServiceManager.getInstance().get(key).
ReqService(key) == get(key)

\* channels/Settings.ts: every own name is a method decorated with Action.
SettingsClass == ClassBody([getUser |-> "action", updateUser |-> "action"])

\* The decorator RegisterNamespace on the class Settings: `new Settings()`,
\* then ReqService("IPCHandler").register(..), which binds a handler to the
\* channel of every action, each of them being a method.  ReqService throws
\* when the registry is not ready or has no IPCHandler.
RegisterNamespace(outcome) ==
    /\ namespaces = << >>
    /\ namespaces' =
           IF outcome = "constructed"
           THEN << Constructed("Settings", SettingsClass) >> ELSE namespaces
    /\ LET ns == Constructed("Settings", SettingsClass)
           bound == { ChannelName(ns.type, ns.actionRegistry[i]) :
                          i \in 1 .. Len(ns.actionRegistry) }
           registers == outcome = "constructed" /\ ReqService("IPCHandler") = "service"
       IN  /\ handlers' = [ch \in Channels |->
                  IF registers /\ ch \in bound
                  THEN Handler(1, CHOOSE a \in ActionNames : ch = ChannelName(ns.type, a))
                  ELSE handlers[ch]]
           /\ latest' = [ch \in Channels |->
                  IF registers /\ ch \in bound
                  THEN [named |-> 1, reached |-> 1] ELSE latest[ch]]
           /\ ipcLast' = [NoIpcCall EXCEPT
                  !.op = "RegisterNamespace",
                  !.ns = IF outcome = "constructed" THEN 1 ELSE 0,
                  !.res = IF outcome # "constructed" THEN outcome
                          ELSE IF registers THEN "returned" ELSE ReqService("IPCHandler")]
    /\ UNCHANGED << serviceVars, limiterVars, loggerVars, otherVars >>

\* The message of the Error that get(key) throws.
ErrorMessage(key, error) ==
    IF error = "NotReady" THEN "\"" \o key \o "\" accessed before SM initialization"
    ELSE key \o " has not been registered with SM"

\* A handler bound to "Settings:getUser" / "Settings:updateUser" is invoked:
\* the action asks ReqService("Settings") for the service and calls it; the
\* handler turns the Error of ReqService into a response with status 500.
InvokeSettings(action, patch) ==
    /\ handlers[ChannelName("Settings", action)] # NoHandler
    /\ action = "getUser" => patch = EmptyObject
    /\ LET updated == deepMerge(safeReadJson(UserSettingsPath), patch)
           served == ReqService("Settings") = "service"
       IN  /\ files' = IF served /\ action = "updateUser"
                       THEN atomicWriteJson(UserSettingsPath, updated) ELSE files
           /\ returned' = IF served /\ action = "updateUser"
                          THEN [returned EXCEPT ![UserSettingsPath] = updated]
                          ELSE returned
           /\ setLast' =
                  IF served
                  THEN [NoSettingsCall EXCEPT
                           !.op = action, !.via = "channel", !.path = UserSettingsPath,
                           !.patch = patch, !.status = 200,
                           !.data = IF action = "updateUser" THEN updated
                                    ELSE safeReadJson(UserSettingsPath)]
                  ELSE [NoSettingsCall EXCEPT
                           !.op = action, !.via = "channel", !.path = UserSettingsPath,
                           !.patch = patch, !.status = 500,
                           !.message = ErrorMessage("Settings", ReqService("Settings"))]
    /\ UNCHANGED << serviceVars, namespaceVars, limiterVars, loggerVars,
                    singletonVars, decoratorVars, hostVars >>

\* The bootstrap of App, a client that may add a Settings service to the
\* registry before it is ready, the definition of the namespace class
\* Settings, and the renderer invoking its two user channels.
SettingsChannelNext ==
    \/ AppInitServices
    \/ Add("Settings", 1)
    \/ InitResume(1, "ok")
    \/ \E outcome \in ConstructionOutcomes : RegisterNamespace(outcome)
    \/ InvokeSettings("getUser", EmptyObject)
    \/ \E patch \in Patches : InvokeSettings("updateUser", patch)

SettingsChannelSpec == Init /\ [][SettingsChannelNext]_vars

\* ------------------------------------------- claims on the settings service

\* `out` is the deep merge of `base` with `patch`: it has the keys of both; a
\* key the patch lacks keeps base's value; a key of the patch has the patch's
\* value, unless both values are plain objects, which are merged recursively.
RECURSIVE IsDeepMerge(_, _, _)
IsDeepMerge(base, patch, out) ==
    /\ DOMAIN out = DOMAIN base \cup DOMAIN patch
    /\ \A k \in DOMAIN out :
           IF k \notin DOMAIN patch THEN out[k] = base[k]
           ELSE IF k \in DOMAIN base /\ base[k].kind = "object" /\ patch[k].kind = "object"
                THEN /\ out[k].kind = "object"
                     /\ IsDeepMerge(base[k].map, patch[k].map, out[k].map)
                ELSE out[k] = patch[k]

\* The registry is as App.initServices() and a completed init() leave it.
Bootstrapped == ready /\ Has("Logger") /\ Has("IPCHandler")

\* C25: with the application bootstrapped as App does it and the namespace
\* Settings registered, invoking "Settings:getUser" returns status 200 with
\* the stored object ({} when nothing is stored), and invoking
\* "Settings:updateUser" returns status 200 with the merged object, which a
\* later getUser returns.
C25_SettingsChannelsServeTheStore ==
    [][ (setLast' # setLast /\ setLast'.via = "channel" /\ Bootstrapped) =>
          /\ setLast'.status = 200
          /\ setLast'.op = "getUser" => setLast'.data = returned[UserSettingsPath]
          /\ setLast'.op = "updateUser" =>
                /\ IsDeepMerge(returned[UserSettingsPath], setLast'.patch, setLast'.data)
                /\ returned'[UserSettingsPath] = setLast'.data
    ]_vars

\* C26: starting with no settings file, each updateUser / updateProject
\* returns the deep merge of the object stored before with the patch and
\* leaves exactly that in the file of its path, every other file as it was;
\* getUser / getProject return what the latest update of that path returned,
\* or {} when there was none.
C26_UpdateMergesStoresAndReadsBack ==
    [][ (setLast' # setLast \/ files' # files) =>
          /\ setLast'.op \in {"updateUser", "updateProject"} =>
                /\ IsDeepMerge(returned[setLast'.path], setLast'.patch, setLast'.data)
                /\ files'[setLast'.path] = [exists |-> TRUE, text |-> setLast'.data]
                /\ \A p \in SettingsPaths \ {setLast'.path} : files'[p] = files[p]
          /\ setLast'.op \in {"getUser", "getProject"} =>
                /\ setLast'.data = returned[setLast'.path]
                /\ files' = files
          /\ setLast'.op \in {"getUser", "updateUser"} => setLast'.path = UserSettingsPath
    ]_vars

\* A second user patch has been merged into the first: the nested object has
\* the members of both, the array is the later one; one project has settings
\* of its own and the other has no file.
C26_Witness ==
    /\ setLast.op = "getUser"
    /\ setLast.data = [theme |-> Scalar("light"),
                        options |-> Object([a |-> Scalar("1"), b |-> Scalar("2")]),
                        arr |-> Array("[9]")]
    /\ files[ProjectSettingsPath("projA")].exists
    /\ files[ProjectSettingsPath("projA")].text = [options |-> Scalar("off")]
    /\ ~files[ProjectSettingsPath("projB")].exists

\* ================================================== SelfManagedSingleton

\* A getInstance() that constructs on every call.
getInstance_AlwaysConstructs ==
    [instance |-> constructed + 1, constructed |-> constructed + 1]

\* getInstance(): `if (!this._instance) this._instance = new this();
\* return this._instance`.  Objects are numbered in the order of construction.
getInstance ==
    IF instance = 0
    THEN [instance |-> constructed + 1, constructed |-> constructed + 1]
    ELSE [instance |-> instance, constructed |-> constructed]

\* ServiceManager.getInstance() is called.  A newly constructed registry has
\* an empty table and is not ready.
GetInstance ==
    /\ instance' = getInstance.instance
    /\ constructed' = getInstance.constructed
    /\ registry' = IF getInstance.constructed # constructed THEN << >> ELSE registry
    /\ ready' = IF getInstance.constructed # constructed THEN FALSE ELSE ready
    /\ calls' = Retired
    /\ last' = [op |-> "getInstance", key |-> NoKey,
                inst |-> getInstance.instance, res |-> "returned"]
    /\ UNCHANGED << namespaceVars, limiterVars, loggerVars, settingsVars, decoratorVars, hostVars >>

\* Every use of the registry goes through getInstance() (App.services,
\* ReqService): the other operations are called on the object it returned.
SingletonNext ==
    \/ GetInstance
    \/ instance # 0 /\ \E key \in Keys : Add(key, 1)
    \/ instance # 0 /\ \E key \in Keys : Get(key)
    \/ instance # 0 /\ InitStart(1)
    \/ instance # 0 /\ \E out \in HookOutcomes : InitResume(1, out)
    \/ instance # 0 /\ DisposeStart(1)
    \/ instance # 0 /\ \E out \in HookOutcomes : DisposeResume(1, out)

SingletonSpec == Init /\ [][SingletonNext]_vars

\* C27: whatever add / init / dispose calls come between them, every
\* getInstance() call returns the same registry object, the one the first call
\* constructed; no other is ever constructed.
C27_OneRegistryObject ==
    /\ constructed <= 1
    /\ instance # 0 => (instance = 1 /\ constructed = 1)
    /\ last.op = "getInstance" => (last.inst = 1 /\ instance = 1)

\* getInstance() is called again when services were added and initialised.
C27_Witness ==
    /\ last.op = "getInstance"
    /\ last.inst = 1
    /\ ready
    /\ Len(registry) = 3

\* ======================================================= Action (decorator)

\* The class elements Action is applied to, as its `context` describes them:
\* kind, static, name.  The name "" stands for a member whose name is falsy.
MemberKinds == {"method", "getter", "field"}

Members(names) ==
    [kind : MemberKinds, static : BOOLEAN, name : names]

\* The class bodies that are defined: one or two decorated members, the
\* first named getUser, the second updateUser, or either without a name.
ClassDefinitions ==
    { << m >> : m \in Members({"getUser", ""}) }
        \cup { << m1, m2 >> : m1 \in Members({"getUser", ""}),
                              m2 \in Members({"updateUser", ""}) }

\* Action without the test of kind and static.
Action_AnyMember(context) ==
    IF context.name = "" THEN "Error: without names" ELSE "initializer"

\* Action(value, context): throws for anything but an instance method and for
\* a member without a name; otherwise adds the initializer that registers
\* String(context.name).
Action(context) ==
    IF context.kind # "method" \/ context.static
    THEN "Error: only on instance methods"
    ELSE IF context.name = "" THEN "Error: without names"
    ELSE "initializer"

\* The first member of the class body, in order, on which Action throws;
\* 0 when it throws on none.
FirstRefused(members) ==
    IF \E i \in 1 .. Len(members) : Action(members[i]) # "initializer"
    THEN CHOOSE i \in 1 .. Len(members) :
             /\ Action(members[i]) # "initializer"
             /\ \A j \in 1 .. i - 1 : Action(members[j]) = "initializer"
    ELSE 0

\* A class definition is evaluated: Action is applied to each decorated
\* member; when it throws, the evaluation of the class ends with that Error
\* and there is no class; otherwise the class carries the initializers.
DefineClass(members) ==
    /\ classes' =
           IF FirstRefused(members) = 0
           THEN classes \cup {[initializers |-> [i \in 1 .. Len(members) |-> members[i].name]]}
           ELSE classes
    /\ defLast' = [op |-> "define", members |-> members,
                   res |-> IF FirstRefused(members) = 0 THEN "defined"
                           ELSE Action(members[FirstRefused(members)])]
    /\ UNCHANGED registries
    /\ UNCHANGED << serviceVars, namespaceVars, limiterVars, loggerVars,
                    settingsVars, singletonVars, hostVars >>

\* `new C()` of a defined class: Namespace's initializer registers ping, then
\* the initializers of the class run.
Construct(class) ==
    /\ class \in classes
    /\ registries' =
           registries \cup {RunInitializers(<< >>, << "ping" >> \o class.initializers)}
    /\ defLast' = [NoDefinition EXCEPT !.op = "new"]
    /\ UNCHANGED classes
    /\ UNCHANGED << serviceVars, namespaceVars, limiterVars, loggerVars,
                    settingsVars, singletonVars, hostVars >>

DecoratorNext ==
    \/ \E members \in ClassDefinitions : DefineClass(members)
    \/ \E class \in classes : Construct(class)

DecoratorSpec == Init /\ [][DecoratorNext]_vars

\* Action is misused on some member of the class body.
Misused(members) ==
    \E i \in 1 .. Len(members) :
        members[i].static \/ members[i].kind # "method" \/ members[i].name = ""

\* The names a registry holds.
NamesIn(actionRegistry) == { actionRegistry[i] : i \in 1 .. Len(actionRegistry) }

\* C30: a class definition in which Action is applied to a static member, to
\* a member that is no method or to a member without a name ends with an
\* Error at definition time, and adds no class, no initializer and no name to
\* any registry; no registry ever holds a name other than ping and the names
\* of instance methods.
C30_MisuseRaisesAndRegistersNothing ==
    [][ /\ (defLast'.op = "define" /\ Misused(defLast'.members)) =>
              /\ defLast'.res \in {"Error: only on instance methods", "Error: without names"}
              /\ classes' = classes
              /\ registries' = registries
        /\ \A r \in registries' : NamesIn(r) \subseteq {"ping", "getUser", "updateUser"}
    ]_vars

\* A class whose first member is a proper instance method and whose second is
\* static was refused, while properly defined classes have instances.
C30_Witness ==
    /\ defLast.op = "define"
    /\ defLast.members = << [kind |-> "method", static |-> FALSE, name |-> "getUser"],
                            [kind |-> "method", static |-> TRUE, name |-> "updateUser"] >>
    /\ defLast.res = "Error: only on instance methods"
    /\ << "ping", "getUser" >> \in registries
    /\ << "ping", "getUser", "updateUser" >> \notin registries

\* ============================================================= safe logger

\* { user: "u" }, a string, an Error, a BigInt (JSON.stringify throws on it),
\* an object that refers to itself, and an object that refers to itself and
\* has no toString (Object.create(null), or one whose toString throws).
SafeLogValues ==
    { Undefined,
      Value("object", TRUE, TRUE),
      Value("string", TRUE, TRUE),
      Value("Error", TRUE, TRUE),
      Value("bigint", FALSE, TRUE),
      Value("object", FALSE, TRUE),
      Value("object", FALSE, FALSE) }

\* options.error: absent, an Error, or a thrown value of the last kind.
SafeLogErrors ==
    { Undefined, Value("Error", TRUE, TRUE), Value("object", FALSE, FALSE) }

\* options.scope: absent or a scope.
SafeLogScopes == {"undefined", "ipc"}

\* What a console method does when it is called, and what process.stdout /
\* process.stderr offer: a write that returns, a write that throws, no stream.
ConsoleOutcomes == {"ok", "throws"}

StreamOutcomes == {"ok", "throws", "absent"}

\* safeValue(v): the fields of an Error; v itself when JSON.stringify(v)
\* returns; String(v) otherwise, which is outside the try and throws a
\* TypeError for a value that has no string conversion.
safeValue(v) ==
    IF v.type = "Error" THEN "fields"
    ELSE IF v.json THEN "value"
    ELSE IF v.str THEN "string"
    ELSE "TypeError"

\* typeof v === "object" && v !== null
IsObject(v) == v.type \in {"object", "Error"}

\* The keys that the options.ctx block leaves in meta: the members of a
\* serializable object (Object.assign), `ctx` for an object JSON.stringify
\* throws on, `detail` for anything else.
CtxKeys(ctx) ==
    IF ctx = Undefined THEN {}
    ELSE IF IsObject(ctx)
         THEN IF ctx.json THEN (IF ctx.type = "Error" THEN {} ELSE {"user"})
              ELSE {"ctx"}
         ELSE {"detail"}

\* Whether the options.ctx block calls attach(), and so safeValue().
CtxAttached(ctx) == ctx # Undefined /\ ~(IsObject(ctx) /\ ctx.json)

\* Where the line goes: the console method of the level; when that throws, the
\* raw write on stderr (ERROR) or stdout, which is skipped when the stream is
\* missing and whose failure is swallowed.
Output(level, console, stream) ==
    IF console = "ok" THEN "console." \o level
    ELSE IF stream = "ok" THEN (IF level = "ERROR" THEN "stderr" ELSE "stdout")
    ELSE "none"

\* Logger.safeLog(message, { level, scope, ctx, error }).
safeLog(level, scope, ctx, error, console, stream) ==
    LET threw == \/ CtxAttached(ctx) /\ safeValue(ctx) = "TypeError"
                 \/ error # Undefined /\ safeValue(error) = "TypeError"
        meta == (IF scope # "undefined" THEN {"scope"} ELSE {})
                    \cup CtxKeys(ctx)
                    \cup (IF error # Undefined THEN {"error"} ELSE {})
                    \cup {"pid"}
    IN  [op |-> "safeLog", level |-> level, scope |-> scope, ctx |-> ctx,
         error |-> error, console |-> console, stream |-> stream,
         res |-> IF threw THEN "TypeError" ELSE "returned",
         out |-> IF threw THEN "none" ELSE Output(level, console, stream),
         meta |-> IF threw THEN {} ELSE meta]

\* safeLog is static and reads neither the registry nor a Logger instance.
SafeLog(level, scope, ctx, error, console, stream) ==
    /\ safeLast' = safeLog(level, scope, ctx, error, console, stream)
    /\ UNCHANGED << serviceVars, namespaceVars, limiterVars, loggerVars,
                    settingsVars, singletonVars, decoratorVars, appVars, configVars >>

\* safeLog is called before App adds its services, while the registry is
\* initializing and after it is sealed.
SafeLogNext ==
    \/ AppInitServices
    \/ InitResume(1, "ok")
    \/ \E level \in Levels, scope \in SafeLogScopes, ctx \in SafeLogValues,
          error \in SafeLogErrors, console \in ConsoleOutcomes,
          stream \in StreamOutcomes :
           SafeLog(level, scope, ctx, error, console, stream)

SafeLogSpec == Init /\ [][SafeLogNext]_vars

\* C31: safeLog never throws, whatever its options and whatever the state of
\* the registry; a context that JSON.stringify throws on still gives a line
\* (on the console, or on the raw stream when the console fails and the
\* stream is there), and a failure of console and stream is swallowed.
C31_SafeLogNeverThrows ==
    safeLast.op = "safeLog" =>
        /\ safeLast.res = "returned"
        /\ safeLast.console = "ok" => safeLast.out = "console." \o safeLast.level
        /\ (safeLast.console = "throws" /\ safeLast.stream = "ok")
               => safeLast.out \in {"stdout", "stderr"}

\* ------------------------------------------- claims on register and invocation

\* C32: after register(name, ns) has returned normally, every name in ns's
\* action registry has a handler on the channel "<type name of ns>:<name>",
\* and a handler that register() installed calls the action it was bound to
\* with the registered namespace as receiver, the invocation event first and
\* the arguments of the invocation after it.
C32_RegisteredActionsAreBoundAndCalled ==
    /\ (ipcLast.op = "register" /\ ipcLast.res = "returned")
           => \A a \in RegisteredNames(ipcLast.ns) :
                  handlers[ChannelName(namespaces[ipcLast.ns].type, a)]
                      = Handler(ipcLast.ns, a)
    /\ (ipcLast.op = "invoke" /\ ipcLast.reached # NoHandler)
           => /\ ipcLast.reached.action \in RegisteredNames(ipcLast.reached.ns)
              /\ ipcLast.reached.action \in namespaces[ipcLast.reached.ns].methods
              /\ ipcLast.channel =
                     ChannelName(namespaces[ipcLast.reached.ns].type, ipcLast.reached.action)
              /\ ipcLast.received.receiver = ipcLast.reached.ns
              /\ ipcLast.received.method = ipcLast.reached.action
              /\ ipcLast.received.arguments # << >>
              /\ Head(ipcLast.received.arguments) = InvokeEvent
              /\ Tail(ipcLast.received.arguments) \in InvocationArgs

\* The second instance was registered in full, and an invocation with an
\* argument on one of its channels reached its updateUser with the event and
\* the argument.
C32_Witness ==
    /\ ipcLast.op = "invoke"
    /\ ipcLast.received = [receiver |-> 2, method |-> "updateUser",
                           arguments |-> << InvokeEvent, "patch" >>]
    /\ \A a \in RegisteredNames(2) :
           handlers[ChannelName(namespaces[2].type, a)] = Handler(2, a)

\* -------------------------------------------- claims on RegisterNamespace

\* Clients add services (the Logger, the IPCHandler, a Settings service) in
\* any order and run init(), so that the registry may be sealed without an
\* IPCHandler; the class Settings is defined at any moment of this, and the
\* renderer invokes the Settings channels.
RegisterNamespaceNext ==
    \/ \E key \in Keys : Add(key, 1)
    \/ InitStart(1)
    \/ InitResume(1, "ok")
    \/ \E outcome \in ConstructionOutcomes : RegisterNamespace(outcome)
    \/ \E a \in ActionNames, args \in InvocationArgs :
           Invoke(ChannelName("Settings", a), args, "returns", "undefined")

RegisterNamespaceSpec == Init /\ [][RegisterNamespaceNext]_vars

\* No channel of the namespace type Settings has a handler.
NoSettingsHandler ==
    \A a \in ActionNames : handlers[ChannelName("Settings", a)] = NoHandler

\* C33: RegisterNamespace constructs exactly one instance of the namespace
\* type and registers it with the IPCHandler that the registry hands out:
\* every action of the instance gets its handler.  When the registry is not
\* sealed at that moment the call fails with the NotReady error, when it is
\* sealed without an IPCHandler with the NotRegistered error, and in both
\* cases no handler is installed for the namespace.
C33_RegisterNamespaceNeedsSealedRegistry ==
    [][ (namespaces = << >> /\ ipcLast' # ipcLast /\ ipcLast'.res # "TypeError") =>
          /\ Len(namespaces') = 1
          /\ namespaces'[1] = Constructed("Settings", SettingsClass)
          /\ (ready /\ Has("IPCHandler")) =>
                /\ ipcLast'.res = "returned"
                /\ \A i \in 1 .. Len(namespaces'[1].actionRegistry) :
                       handlers'[ChannelName("Settings", namespaces'[1].actionRegistry[i])]
                           = Handler(1, namespaces'[1].actionRegistry[i])
          /\ ~ready =>
                /\ ipcLast'.res = "NotReady"
                /\ handlers' = handlers
                /\ NoSettingsHandler
          /\ (ready /\ ~Has("IPCHandler")) =>
                /\ ipcLast'.res = "NotRegistered"
                /\ handlers' = handlers
                /\ NoSettingsHandler
    ]_vars

\* The registry was sealed without an IPCHandler when the class Settings was
\* defined: the instance exists, the call failed with NotRegistered, and an
\* invocation of a Settings channel finds no handler.
C33_Witness ==
    /\ ready /\ ~Has("IPCHandler")
    /\ Len(namespaces) = 1
    /\ NoSettingsHandler
    /\ ipcLast.op = "invoke"
    /\ ipcLast.res = "no handler"

\* ==================================================================== App

\* What the transports of the registered Logger do with the records of one
\* App call: deliver them, throw on the INFO records, throw on every record
\* (emit() lets a transport's exception through to the caller of the logger).
LogOutcomes == {"ok", "infoThrows", "allThrow"}

\* ReqService("Logger").<level>(..) throws: the getter returned undefined, or
\* the registered Logger has a transport that throws on the record.  The
\* substitute logger has the console transport only.
LogThrows(logs, level) ==
    \/ logger = "undefined"
    \/ /\ logger = "service"
       /\ logs = "allThrow" \/ (logs = "infoThrows" /\ level = "INFO")

AppCall(op, res) == [op |-> op, from |-> state, res |-> res]

\* The registry after initServices() on a registry that is not ready: the
\* Logger and the IPCHandler are set.
AppServices == MapSet(MapSet(registry, "Logger", 1), "IPCHandler", 2)

\* App.init().  In the try block: initLogger.info, initServices (two add()
\* calls and `this.services.init()`, which is not awaited and so runs up to
\* its first await), setupEventHandlers, newState(READY), one more info.  In
\* the catch block: newState(ERROR), initLogger.error, electronApp.quit().
AppInit(logs) ==
    /\ quit # "exited"
    /\ calls[1].pc # "await"
    /\ listeners < MaxInits
    /\ UNCHANGED << whenReady, electronReady, windows >>
    /\ UNCHANGED << namespaceVars, limiterVars, loggerVars, settingsVars,
                    singletonVars, decoratorVars, safeLogVars, configVars >>
    /\ IF LogThrows(logs, "INFO")
       THEN /\ state' = "error"
            /\ quit' = IF LogThrows(logs, "ERROR") THEN quit ELSE "requested"
            /\ appLast' = AppCall("init",
                   IF LogThrows(logs, "ERROR") THEN "rejected" ELSE "returned")
            /\ UNCHANGED listeners
            /\ UNCHANGED serviceVars
       ELSE /\ state' = "ready"
            /\ listeners' = listeners + 1
            /\ appLast' = AppCall("init", "returned")
            /\ UNCHANGED quit
            /\ IF ready
               THEN /\ calls' = [Retired EXCEPT ![1] =
                           Call("init", "resolved", 0, << >>, << >>)]
                    /\ last' = Returned("init", 1, "refused")
                    /\ UNCHANGED << registry, ready >>
               ELSE /\ registry' = AppServices
                    /\ calls' = [Retired EXCEPT ![1] =
                           Call("init", "await", 1, << >>, << Visit(AppServices[1]) >>)]
                    /\ last' = NoCall
                    /\ UNCHANGED ready

\* App.start(): refused with an error log unless the state is READY; in READY
\* it attaches a callback to electronApp.whenReady() and returns.
Start(logs) ==
    /\ quit # "exited"
    /\ state = "ready" => whenReady < MaxWindows
    /\ whenReady' =
           IF state = "ready" /\ ~LogThrows(logs, "DEBUG") THEN whenReady + 1
           ELSE whenReady
    /\ appLast' = AppCall("start",
           IF state # "ready"
           THEN (IF LogThrows(logs, "ERROR") THEN "rejected" ELSE "refused")
           ELSE IF LogThrows(logs, "DEBUG") \/ LogThrows(logs, "INFO")
                THEN "rejected" ELSE "returned")
    /\ UNCHANGED << state, listeners, electronReady, windows, quit >>
    /\ UNCHANGED << serviceVars, namespaceVars, limiterVars, loggerVars,
                    settingsVars, singletonVars, decoratorVars, safeLogVars, configVars >>

\* Electron emits ready; whenReady() is resolved from now on.
ElectronReady ==
    /\ quit # "exited"
    /\ ~electronReady
    /\ electronReady' = TRUE
    /\ appLast' = AppCall("ready", "-")
    /\ UNCHANGED << state, listeners, whenReady, windows, quit >>
    /\ UNCHANGED << serviceVars, namespaceVars, limiterVars, loggerVars,
                    settingsVars, singletonVars, decoratorVars, safeLogVars, configVars >>

\* createMainWindow(): the windows open afterwards.  Without state RUNNING it
\* logs an error and returns; otherwise it logs and constructs a BrowserWindow.
createMainWindow(appState, logs) ==
    IF appState # "running" THEN windows
    ELSE IF LogThrows(logs, "INFO") THEN windows
    ELSE windows + 1

\* The callback that start() attached to whenReady():
\* `this.newState(AppState.RUNNING); await this.createMainWindow()`.
WhenReadyCallback(logs) ==
    /\ quit # "exited"
    /\ electronReady
    /\ whenReady > 0
    /\ windows < MaxWindows
    /\ state' = "running"
    /\ windows' = createMainWindow("running", logs)
    /\ whenReady' = whenReady - 1
    /\ appLast' = AppCall("whenReady",
           IF LogThrows(logs, "INFO") THEN "rejected" ELSE "window")
    /\ UNCHANGED << listeners, electronReady, quit >>
    /\ UNCHANGED << serviceVars, namespaceVars, limiterVars, loggerVars,
                    settingsVars, singletonVars, decoratorVars, safeLogVars, configVars >>

\* Electron emits activate (the dock icon is clicked): the handler logs and
\* calls createMainWindow().  Events are delivered once the callbacks of a
\* resolved whenReady() have run.
Activate(logs) ==
    /\ quit # "exited"
    /\ listeners > 0
    /\ electronReady
    /\ whenReady = 0
    /\ windows < MaxWindows
    /\ windows' = IF LogThrows(logs, "INFO") THEN windows
                  ELSE createMainWindow(state, logs)
    /\ appLast' = AppCall("activate",
           IF LogThrows(logs, "INFO") THEN "threw"
           ELSE IF state = "running" THEN "window" ELSE "refused")
    /\ UNCHANGED << state, listeners, whenReady, electronReady, quit >>
    /\ UNCHANGED << serviceVars, namespaceVars, limiterVars, loggerVars,
                    settingsVars, singletonVars, decoratorVars, safeLogVars, configVars >>

\* The last window is closed and Electron emits window-all-closed: the handler
\* logs and, unless the platform is darwin, calls shutdown(), which sets
\* SHUTTING_DOWN, calls `this.services.dispose()` without awaiting it (the
\* call runs up to its first await) and calls electronApp.quit().
WindowAllClosed(darwin, logs) ==
    /\ quit # "exited"
    /\ listeners > 0
    /\ windows > 0
    /\ whenReady = 0
    /\ calls[2].pc # "await"
    /\ windows' = 0
    /\ UNCHANGED << listeners, whenReady, electronReady >>
    /\ UNCHANGED << namespaceVars, limiterVars, loggerVars, settingsVars,
                    singletonVars, decoratorVars, safeLogVars, configVars >>
    /\ IF darwin \/ LogThrows(logs, "INFO")
       THEN /\ appLast' = AppCall("window-all-closed",
                   IF darwin /\ ~LogThrows(logs, "INFO") THEN "stays" ELSE "threw")
            /\ UNCHANGED << state, quit >>
            /\ UNCHANGED serviceVars
       ELSE /\ state' = "shutting_down"
            /\ quit' = "requested"
            /\ appLast' = AppCall("window-all-closed", "shutdown")
            /\ DisposeLoop(2, 0, DisposeOrder, << >>)

\* The process ends some time after electronApp.quit().
ProcessExits ==
    /\ quit = "requested"
    /\ quit' = "exited"
    /\ appLast' = AppCall("exit", "-")
    /\ UNCHANGED << state, listeners, whenReady, electronReady, windows >>
    /\ UNCHANGED << serviceVars, namespaceVars, limiterVars, loggerVars,
                    settingsVars, singletonVars, decoratorVars, safeLogVars, configVars >>

\* The host calls init() and start() at any time; Electron emits its events;
\* the hooks that init() and dispose() await (Logger.init, which is empty, and
\* the missing hooks of the IPCHandler) resolve.
AppNext ==
    \/ \E logs \in LogOutcomes : AppInit(logs)
    \/ \E logs \in LogOutcomes : Start(logs)
    \/ ElectronReady
    \/ \E logs \in LogOutcomes : WhenReadyCallback(logs)
    \/ \E logs \in LogOutcomes : Activate(logs)
    \/ \E darwin \in BOOLEAN, logs \in LogOutcomes : WindowAllClosed(darwin, logs)
    \/ ProcessExits
    \/ InitResume(1, "ok")
    \/ DisposeResume(2, "ok")

AppSpec == Init /\ [][AppNext]_vars

\* --------------------------------------------------------- claims on the App

\* C34: when App.init() has moved the app to READY the registry is sealed and
\* the init hook of every registered service has completed: in no state READY
\* or RUNNING does get("IPCHandler") fail with the NotReady error.
C34_ReadyMeansSealed ==
    state \in {"ready", "running"} =>
        /\ ready
        /\ ~(calls[1].op = "init" /\ calls[1].pc = "await")
        /\ get("IPCHandler") # "NotReady"

\* C36: the state becomes RUNNING only directly from READY; start() in any
\* other state leaves the state as it is and creates no window; once the
\* state is SHUTTING_DOWN or ERROR no later step moves it to RUNNING, the
\* callback that start() attached to whenReady() included.
C36_RunningOnlyFromReady ==
    [][ /\ (state' = "running" /\ state # "running") => state = "ready"
        /\ (appLast' # appLast /\ appLast'.op = "start" /\ state # "ready")
               => (state' = state /\ windows' = windows /\ whenReady' = whenReady)
        /\ state \in {"shutting_down", "error"} => state' # "running"
    ]_vars

\* ------------------------------------------------ claims on overlapping init

\* Clients that do not wait for one another: services are added, and init()
\* is called in any call slot, also while another init() is suspended at the
\* await of an init hook.  dispose() is not called.
OverlapNext ==
    \/ \E key \in Keys : Add(key, 1)
    \/ \E c \in Calls : InitStart(c)
    \/ \E c \in Calls : InitResume(c, "ok")

OverlapSpec == Init /\ [][OverlapNext]_vars

\* The invocations of the init hook of the service under `key` by the init()
\* calls in flight: the call slot and the position in its log.
InitHookCalls(key) ==
    { << c, n >> \in Calls \X (1 .. Cardinality(Keys)) :
          /\ calls[c].op = "init"
          /\ n <= Len(calls[c].log)
          /\ calls[c].log[n].key = key }

\* C35: an init() call made after init() has been called, and before
\* dispose(), is a no-op: also when it is made while the first call is
\* awaiting an init hook, the init hook of each registered service is invoked
\* at most once.
C35_InitHookInvokedOnce ==
    \A key \in Keys : Cardinality(InitHookCalls(key)) <= 1

\* =============================================================== ConfigFile

\* The public methods that hand a function to serial(): patch, set, init and
\* atomic; "save" is atomic() as save() calls it, without fsync (reset() calls
\* it as patch and set do).
ConfigOps == {"patch", "set", "init", "atomic", "save"}

\* The runs of atomic()'s function, which writes the file.
Writes == {"atomic", "save"}

\* What the file-system operations of one write come to: they complete, or
\* one of them fails (writeFile, open, sync, close, rename reject).
WriteOutcomes == {"ok", "fails"}

SettledStatus == {"fulfilled", "rejected"}

\* A function handed to serial(): `op` the method that made it, `parent` the
\* run whose function called that method (0: a client did), `status` of the
\* promise `run`: "queued" while the function waits for the mutex, "running"
\* once it has been called, then "fulfilled" or "rejected"; `pc` where the
\* function is: "body" before its call of atomic(), "atomic" awaiting it.
Run(op, parent) == [op |-> op, parent |-> parent, status |-> "queued", pc |-> "-"]

RunIds == 1 .. Len(runs)

\* The calls that clients have made.
Submissions == { k \in RunIds : runs[k].parent = 0 }

\* A mutex that is chained with then(fn) alone: `this.mutex = run`, so that a
\* rejected run leaves the mutex rejected and the next function is not called.
MutexSettled_FulfilledOnly(k) ==
    IF k = 0 THEN TRUE ELSE runs[k].status = "fulfilled"

\* The mutex that serial() left after run k,
\* `run.then(() => undefined, () => undefined)`, is resolved once run k has
\* settled, whichever way; mutex 0 is the `Promise.resolve()` of the field.
MutexSettled(k) ==
    IF k = 0 THEN TRUE ELSE runs[k].status \in SettledStatus

\* serial(fn): `run = this.mutex.then(fn, fn)` chains fn to the mutex that the
\* previous serial() call left, `this.mutex = run.then(..)` makes the mutex
\* wait for run.  The runs after serial() is called for `op` from `parent`.
serial(op, parent) == Append(runs, Run(op, parent))

\* A client calls patch, set, init or atomic (save, reset).
Submit(op) ==
    /\ Cardinality(Submissions) < MaxSubmissions
    /\ runs' = serial(op, 0)
    /\ UNCHANGED configExists
    /\ UNCHANGED << serviceVars, namespaceVars, limiterVars, loggerVars,
                    settingsVars, singletonVars, decoratorVars, safeLogVars, appVars >>

\* The mutex before run k is resolved and its reaction calls the function.
StartRun(k) ==
    /\ runs[k].status = "queued"
    /\ MutexSettled(k - 1)
    /\ runs' = [runs EXCEPT ![k].status = "running", ![k].pc = "body"]
    /\ UNCHANGED configExists
    /\ UNCHANGED << serviceVars, namespaceVars, limiterVars, loggerVars,
                    settingsVars, singletonVars, decoratorVars, safeLogVars, appVars >>

\* Whether the function of `op` goes on to call `this.atomic(..)`: patch and
\* set after their read, init when the file does not exist.
CallsAtomic(op) == op \in {"patch", "set"} \/ (op = "init" /\ ~configExists)

\* The run that the atomic() call of run k handed to serial().
AtomicOf(k) == CHOOSE j \in RunIds : runs[j].parent = k

\* The function of run k goes on to its next await or to its return.
\* atomic's function writes the file and returns, or rejects when a
\* file-system operation fails.  patch / set / init get to
\* `await this.atomic(..)`, which hands atomic's function to serial(); init
\* with the file present reads, merges and returns.  `await this.atomic(..)`
\* resumes once atomic's run has settled: the function returns the frozen
\* object, or rejects with atomic's error.
Continue(k, outcome) ==
    /\ runs[k].status = "running"
    /\ (runs[k].op \notin Writes) => (outcome = "ok")
    /\ (runs[k].pc = "atomic") => (runs[AtomicOf(k)].status \in SettledStatus)
    /\ runs' =
           IF runs[k].pc = "atomic"
           THEN [runs EXCEPT ![k].status = runs[AtomicOf(k)].status]
           ELSE IF runs[k].op \in Writes
           THEN [runs EXCEPT ![k].status =
                    IF outcome = "ok" THEN "fulfilled" ELSE "rejected"]
           ELSE IF CallsAtomic(runs[k].op)
                THEN [serial("atomic", k) EXCEPT ![k].pc = "atomic"]
                ELSE [runs EXCEPT ![k].status = "fulfilled"]
    /\ configExists' = (configExists \/ (runs[k].op \in Writes /\ outcome = "ok"))
    /\ UNCHANGED << serviceVars, namespaceVars, limiterVars, loggerVars,
                    settingsVars, singletonVars, decoratorVars, safeLogVars, appVars >>

\* What runs without a client: promise reactions and file-system completions.
ConfigProgress ==
    \/ \E k \in RunIds : StartRun(k)
    \/ \E k \in RunIds, outcome \in WriteOutcomes : Continue(k, outcome)

ConfigNext ==
    \/ \E op \in ConfigOps : Submit(op)
    \/ ConfigProgress

ConfigSpec == Init /\ [][ConfigNext]_vars

\* The job queue runs every promise reaction that is ready, and every
\* file-system operation completes.
ConfigLiveSpec == ConfigSpec /\ WF_vars(ConfigProgress)

\* ---------------------------------------------------- claims on ConfigFile

\* C37: every call of patch, set, init and atomic eventually settles, given
\* that each file-system operation completes: the mutex leaves no operation
\* waiting forever.
C37_EveryCallSettles ==
    \A k \in 1 .. MaxSubmissions + MaxSubmissions :
        (k \in Submissions) ~> (k \in RunIds /\ runs[k].status \in SettledStatus)

\* The runs that have been started, running or settled.
Started == { k \in RunIds : runs[k].status # "queued" }

\* C38: the functions handed to one instance's serial() run one at a time and
\* in submission order: none has started before every function submitted
\* earlier has settled; a function that rejects does not hold back the
\* functions after it: a queued function whose predecessors have all settled
\* is ready to be called.
C38_OneAtATimeInSubmissionOrder ==
    /\ \A k \in Started : \A j \in 1 .. k - 1 : runs[j].status \in SettledStatus
    /\ Cardinality({ k \in RunIds : runs[k].status = "running" }) <= 1
    /\ \A k \in RunIds :
           (/\ runs[k].status = "queued"
            /\ \A j \in 1 .. k - 1 : runs[j].status \in SettledStatus)
               => MutexSettled(k - 1)

\* A write was rejected, and the function submitted after it has run and
\* settled.
C38_Witness ==
    /\ Len(runs) >= 2
    /\ runs[1].status = "rejected"
    /\ runs[2].status = "fulfilled"

\* ------------------------------------------------ claims on a failing register

\* The place of a registered name in getActions().
PlaceOf(n, name) == CHOOSE i \in 1 .. Len(getActions(n)) : getActions(n)[i] = name

\* C39: register() throws exactly when it meets a registered name that is no
\* callable member.  It is not all-or-nothing: when it throws, the handler
\* that the channel of that name had is already removed, so the channel has no
\* handler at all, and the handlers installed earlier in the same call remain.
C39_RegisterIsNotAtomic ==
    ipcLast.op = "register" =>
        /\ ipcLast.res = "threw"
               <=> \E a \in RegisteredNames(ipcLast.ns) : getAction(ipcLast.ns, a) = "undefined"
        /\ ipcLast.res = "threw" =>
               /\ ipcLast.name \in RegisteredNames(ipcLast.ns)
               /\ getAction(ipcLast.ns, ipcLast.name) = "undefined"
               /\ handlers[getChannel(ipcLast.ns, ipcLast.name)] = NoHandler
               /\ \A i \in 1 .. PlaceOf(ipcLast.ns, ipcLast.name) - 1 :
                      handlers[getChannel(ipcLast.ns, getActions(ipcLast.ns)[i])]
                          = Handler(ipcLast.ns, getActions(ipcLast.ns)[i])

\* The first instance was registered in full; register() of the second one,
\* of the same type, threw at getUser: the channel of ping is bound to the
\* second instance, the channel of getUser, which the first instance had, has
\* no handler, and the channel of updateUser is still the first instance's.
C39_Witness ==
    /\ ipcLast.op = "register"
    /\ ipcLast.res = "threw"
    /\ ipcLast.ns = 2
    /\ ipcLast.name = "getUser"
    /\ namespaces[1].type = "Settings" /\ namespaces[2].type = "Settings"
    /\ getAction(1, "getUser") = "getUser"
    /\ handlers["Settings:ping"] = Handler(2, "ping")
    /\ handlers["Settings:getUser"] = NoHandler
    /\ handlers["Settings:updateUser"] = Handler(1, "updateUser")

\* ---------------------------------------------- claims on the retry-after value

\* C40: the waitTime of a rejection is exact: as long as no call of the same
\* instance and action is accepted in between, a call made waitTime ms or more
\* after the rejected one is accepted, and a call made less than waitTime ms
\* after it is rejected.
C40_RetryAfterIsExact ==
    rlLast.res = "rejected" =>
        \A t \in ClockReadings :
            t >= rlLast.at =>
                (Accepts(rlLast.action, rlLast.on, t) <=> t - rlLast.at >= rlLast.waitTime)

\* The fourth call at one instant was told to wait the whole window: a call
\* 999 ms later would be rejected, one 1000 ms later accepted.
C40_Witness ==
    /\ rlLast.res = "rejected"
    /\ rlLast.action = "getUser"
    /\ rlLast.at = 0
    /\ rlLast.waitTime = 1000
    /\ ~Accepts("getUser", rlLast.on, 999)
    /\ Accepts("getUser", rlLast.on, 1000)

====
